---- MODULE Spec2Model ----
(***************************************************************************)
(* Steady-state engine of the cardiovascular monitor                       *)
(* (app/engine/steady_state.py): profiles, stability, sliding windows,     *)
(* baseline / recent selection, trajectory, segmentation and the symptoms  *)
(* of the segments; and the risk level (app/engine/risk_level.py) the      *)
(* server assesses on the result.                                          *)
(*                                                                         *)
(* Number representation.  Python computes in floats; the model computes   *)
(* the same quantities exactly:                                            *)
(*   - a timestamp is an integer number of days: every measurement is     *)
(*     taken at the same time of day, noon;                                *)
(*   - a record is a function whose domain holds "datetime" and the        *)
(*     metrics that are present (r.get(m) is None exactly when m is not    *)
(*     in DOMAIN r); its symptoms are the set of tags under "events",      *)
(*     absent for a record without symptoms;                               *)
(*   - every number of a profile (median, q1, q3, iqr) is stored in half   *)
(*     units, i.e. as 2 x the Python value, so that the median of an even  *)
(*     number of integer readings is an integer;                           *)
(*   - a stability is the exact fraction [num, den] with den > 0;          *)
(*   - METRIC_WEIGHTS are stored x 10 (10, 10, 15, 8);                     *)
(*   - the user volatility is stored in units of 1/40 and the              *)
(*     segmentation threshold in units of 1/80;                            *)
(*   - the baseline sbp of the risk assessment is a profile median and is  *)
(*     stored in half units; chronic_tension, acute_push and the plaque    *)
(*     score are stored x 10 (the float plaque score is within 2 ulp of    *)
(*     the exact tenth and on the same side of 0.4 and 0.7).               *)
(* The exact values and the floats agree except where a comparison is at   *)
(* exact equality (a stability equal to 0.5 x the baseline's): there the   *)
(* float result depends on rounding, the model takes the exact one.        *)
(***************************************************************************)
EXTENDS Integers, Sequences, FiniteSets, TLC

VARIABLES records, windows, windows_result, trajectory, seg_threshold,
          segments, transitions, events_by_segment, steady_for_risk,
          patterns, risk_bundle, temporal_context, gap_aware_risk

vars == <<records, windows, windows_result, trajectory, seg_threshold,
          segments, transitions, events_by_segment, steady_for_risk,
          patterns, risk_bundle, temporal_context, gap_aware_risk>>

----------------------------------------------------------------------------
(* Configuration of steady_state.py                                        *)

METRICS == <<"sbp", "dbp", "pp", "hr">>

MetricSet == {METRICS[i] : i \in 1..Len(METRICS)}

WINDOW_SIZES == << [label |-> "3pt",  size |-> 3],
                   [label |-> "5pt",  size |-> 5],
                   [label |-> "10pt", size |-> 10],
                   [label |-> "20pt", size |-> 20],
                   [label |-> "30pt", size |-> 30] >>

Labels == {WINDOW_SIZES[i].label : i \in 1..Len(WINDOW_SIZES)}

SizeOf(label) == WINDOW_SIZES[CHOOSE i \in 1..Len(WINDOW_SIZES) : WINDOW_SIZES[i].label = label].size

\* METRIC_WEIGHTS x 10
METRIC_WEIGHTS == [m \in MetricSet |->
                     CASE m = "sbp" -> 10
                       [] m = "dbp" -> 10
                       [] m = "pp"  -> 15
                       [] m = "hr"  -> 8]

----------------------------------------------------------------------------
(* Small arithmetic helpers                                                *)

Abs(x) == IF x < 0 THEN -x ELSE x

Max2(a, b) == IF a >= b THEN a ELSE b

Min2(a, b) == IF a <= b THEN a ELSE b

\* records[start:end] with Python's 0-based, end-exclusive indices
Slice(s, start, end) == [i \in 1..(end - start) |-> s[start + i]]

\* sorted(values): ascending insertion sort of a sequence of integers
RECURSIVE InsertVal(_, _)
InsertVal(v, s) ==
  IF s = <<>> THEN <<v>>
  ELSE IF v < Head(s) THEN <<v>> \o s
       ELSE <<Head(s)>> \o InsertVal(v, Tail(s))

RECURSIVE SortVals(_)
SortVals(s) == IF s = <<>> THEN <<>> ELSE InsertVal(s[Len(s)], SortVals(SubSeq(s, 1, Len(s) - 1)))

\* 2 x statistics.median of a sorted non-empty sequence
Median2(sv) ==
  LET n == Len(sv)
  IN  IF n % 2 = 1 THEN 2 * sv[(n + 1) \div 2]
      ELSE sv[n \div 2] + sv[n \div 2 + 1]

----------------------------------------------------------------------------
(* Profile and stability                                                   *)

_safe_get_metric_values(recs, metric) ==
  LET F[i \in 0..Len(recs)] ==
        IF i = 0 THEN <<>>
        ELSE IF metric \in DOMAIN recs[i] THEN Append(F[i - 1], recs[i][metric])
             ELSE F[i - 1]
  IN  F[Len(recs)]

\* Mutation of _percentile: the index is truncated, not rounded
_percentile_Truncated(sorted_vals, p4) ==
  IF sorted_vals = <<>> THEN 0
  ELSE sorted_vals[((p4 * (Len(sorted_vals) - 1)) \div 4) + 1]

\* idx = int(p * (len - 1) + 0.5) for p = p4 / 4; the result is the value
\* at that 0-based index
_percentile(sorted_vals, p4) ==
  IF sorted_vals = <<>> THEN 0
  ELSE sorted_vals[((p4 * (Len(sorted_vals) - 1) + 2) \div 4) + 1]

\* The metrics with at least one present value, each with its median, q1,
\* q3 and iqr in half units
_compute_profile(recs) ==
  LET present == {m \in MetricSet : \E i \in 1..Len(recs) : m \in DOMAIN recs[i]}
  IN  [m \in present |->
         LET values_sorted == SortVals(_safe_get_metric_values(recs, m))
             q1 == _percentile(values_sorted, 1)
             q3 == _percentile(values_sorted, 3)
         IN  [median |-> Median2(values_sorted),
              q1     |-> 2 * q1,
              q3     |-> 2 * q3,
              iqr    |-> Max2(2 * q3 - 2 * q1, 0)]]

RECURSIVE SumOver(_, _)
SumOver(S, f) ==
  IF S = {} THEN 0
  ELSE LET x == CHOOSE y \in S : TRUE IN f[x] + SumOver(S \ {x}, f)

\* Mutation of _compute_stability: a profile without metrics scores 1
_compute_stability_EmptyIsOne(profile) ==
  IF DOMAIN profile = {} THEN [num |-> 1, den |-> 1]
  ELSE LET total_iqr    == SumOver(DOMAIN profile, [m \in DOMAIN profile |-> profile[m].iqr * METRIC_WEIGHTS[m]])
           total_weight == SumOver(DOMAIN profile, [m \in DOMAIN profile |-> METRIC_WEIGHTS[m]])
       IN  [num |-> 2 * total_weight, den |-> 2 * total_weight + total_iqr]

\* Mutation of _compute_stability: every metric weighs the same
_compute_stability_Unweighted(profile) ==
  IF DOMAIN profile = {} THEN [num |-> 0, den |-> 1]
  ELSE LET total_iqr    == SumOver(DOMAIN profile, [m \in DOMAIN profile |-> profile[m].iqr * 10])
           total_weight == SumOver(DOMAIN profile, [m \in DOMAIN profile |-> 10])
       IN  [num |-> 2 * total_weight, den |-> 2 * total_weight + total_iqr]

\* stability = 1 / (1 + total_iqr / total_weight), as an exact fraction;
\* 0 for a profile without metrics
_compute_stability(profile) ==
  IF DOMAIN profile = {} THEN [num |-> 0, den |-> 1]
  ELSE LET total_iqr    == SumOver(DOMAIN profile, [m \in DOMAIN profile |-> profile[m].iqr * METRIC_WEIGHTS[m]])
           total_weight == SumOver(DOMAIN profile, [m \in DOMAIN profile |-> METRIC_WEIGHTS[m]])
       IN  [num |-> 2 * total_weight, den |-> 2 * total_weight + total_iqr]

----------------------------------------------------------------------------
(* Sorting and windows                                                     *)

\* sorted(records, key=_parse_dt): a stable sort by timestamp
RECURSIVE InsertRec(_, _)
InsertRec(r, s) ==
  IF s = <<>> THEN <<r>>
  ELSE IF s[Len(s)].datetime <= r.datetime THEN Append(s, r)
       ELSE Append(InsertRec(r, SubSeq(s, 1, Len(s) - 1)), s[Len(s)])

_sort_records(recs) ==
  LET F[i \in 0..Len(recs)] == IF i = 0 THEN <<>> ELSE InsertRec(recs[i], F[i - 1])
  IN  F[Len(recs)]

_get_max_gap_days(recs) ==
  IF Len(recs) < 2 THEN 0
  ELSE LET F[i \in 0..(Len(recs) - 1)] ==
             IF i = 0 THEN 0
             ELSE Max2(F[i - 1], recs[i + 1].datetime - recs[i].datetime)
       IN  F[Len(recs) - 1]

\* Mutation of GapPenalised: the penalty loses its "1.0 +"
GapPenalised_NoOne(stability, max_gap) ==
  IF max_gap > 7 THEN [num |-> stability.num, den |-> stability.den * (max_gap - 7)]
  ELSE stability

\* stability / penalty with penalty = 1 + (max_gap - 7), applied when max_gap > 7
GapPenalised(stability, max_gap) ==
  IF max_gap > 7 THEN [num |-> stability.num, den |-> stability.den * (1 + (max_gap - 7))]
  ELSE stability

\* The window over sorted[start:start + window_size] (body of the loop)
WindowAt(sorted, start, window_size) ==
  LET end == start + window_size
      w_records == Slice(sorted, start, end)
      profile == _compute_profile(w_records)
      max_gap == _get_max_gap_days(w_records)
  IN  [start_idx      |-> start,
       end_idx        |-> end,
       start          |-> sorted[start + 1].datetime,
       end            |-> sorted[end].datetime,
       profile        |-> profile,
       stability      |-> GapPenalised(_compute_stability(profile), max_gap),
       max_gap_days   |-> max_gap,
       time_span_days |-> sorted[end].datetime - sorted[start + 1].datetime]

\* Mutation of _slide_windows: the loop stops one window early
_slide_windows_short(recs, window_size) ==
  LET sorted == _sort_records(recs)
      n == Len(sorted)
  IN  IF n < window_size THEN <<>>
      ELSE [k \in 1..(n - window_size) |-> WindowAt(sorted, k - 1, window_size)]

_slide_windows(recs, window_size) ==
  LET sorted == _sort_records(recs)
      n == Len(sorted)
  IN  IF n < window_size THEN <<>>
      ELSE [k \in 1..(n - window_size + 1) |-> WindowAt(sorted, k - 1, window_size)]

----------------------------------------------------------------------------
(* Baseline and recent window of one scale                                 *)

\* a < b for stabilities (fractions with positive denominators)
StabLess(a, b) == a.num * b.den < b.num * a.den

\* a >= 0.5 * b
StabAtLeastHalf(a, b) == 2 * a.num * b.den >= b.num * a.den

\* Mutation of _select_baseline: a later window of equal stability wins
_select_baseline_last(ws) ==
  LET F[i \in 1..Len(ws)] ==
        IF i = 1 THEN ws[1]
        ELSE IF StabLess(ws[i].stability, F[i - 1].stability) THEN F[i - 1] ELSE ws[i]
  IN  F[Len(ws)]

\* max(windows, key=stability): the first window of maximal stability
_select_baseline(ws) ==
  LET F[i \in 1..Len(ws)] ==
        IF i = 1 THEN ws[1]
        ELSE IF StabLess(F[i - 1].stability, ws[i].stability) THEN ws[i] ELSE F[i - 1]
  IN  F[Len(ws)]

\* sorted(windows, key=|last_time - w.end|): a stable sort by distance
RECURSIVE InsertByDist(_, _, _)
InsertByDist(w, s, last_time) ==
  IF s = <<>> THEN <<w>>
  ELSE IF Abs(last_time - s[Len(s)].end) <= Abs(last_time - w.end) THEN Append(s, w)
       ELSE Append(InsertByDist(w, SubSeq(s, 1, Len(s) - 1), last_time), s[Len(s)])

SortByDist(ws, last_time) ==
  LET F[i \in 0..Len(ws)] == IF i = 0 THEN <<>> ELSE InsertByDist(ws[i], F[i - 1], last_time)
  IN  F[Len(ws)]

\* Mutation of _select_recent: the stability floor is not applied
_select_recent_nearest(ws, baseline) ==
  SortByDist(ws, ws[Len(ws)].end)[1]

\* Mutation of _select_recent: the floor is half of the full stability 1,
\* whatever the baseline's stability
_select_recent_AbsoluteFloor(ws, baseline) ==
  LET last_time == ws[Len(ws)].end
      candidates == SortByDist(ws, last_time)
      enough == {i \in 1..Len(candidates) :
                   2 * candidates[i].stability.num >= candidates[i].stability.den}
  IN  IF enough # {}
      THEN candidates[CHOOSE i \in enough : \A j \in enough : i <= j]
      ELSE candidates[1]

_select_recent(ws, baseline) ==
  LET last_time == ws[Len(ws)].end
      candidates == SortByDist(ws, last_time)
      enough == {i \in 1..Len(candidates) :
                   StabAtLeastHalf(candidates[i].stability, baseline.stability)}
  IN  IF enough # {}
      THEN candidates[CHOOSE i \in enough : \A j \in enough : i <= j]
      ELSE candidates[1]

----------------------------------------------------------------------------
(* Trajectory                                                              *)

\* Mutation of TrajectoryStatus: a delta of exactly 3 still counts as stable
TrajectoryStatus_Inclusive(delta) ==
  IF Abs(delta) <= 6 THEN "stable"
  ELSE IF delta > 0 THEN "up" ELSE "down"

\* delta is in half units, so |delta| < 3 reads Abs(delta) < 6
TrajectoryStatus(delta) ==
  IF Abs(delta) < 6 THEN "stable"
  ELSE IF delta > 0 THEN "up" ELSE "down"

\* The step of metric m at one scale, as a sequence of zero or one step
TrajectoryStep(label, baseline, recent, m) ==
  IF m \notin DOMAIN baseline.profile \/ m \notin DOMAIN recent.profile THEN <<>>
  ELSE LET b == baseline.profile[m].median
           r == recent.profile[m].median
           delta == r - b
       IN  << [window   |-> label,
               status   |-> TrajectoryStatus(delta),
               delta    |-> delta,
               baseline |-> b,
               recent   |-> r] >>

----------------------------------------------------------------------------
(* Variability and segmentation                                            *)

\* Sum over the metrics of weight x (median of the metric's IQR over the
\* windows, 5.0 when no window has the metric); 10.0 for no windows.
\* In units of 1/40.
_estimate_user_variability(ws) ==
  IF ws = <<>> THEN 400
  ELSE LET vals(m) == LET F[i \in 0..Len(ws)] ==
                            IF i = 0 THEN <<>>
                            ELSE IF m \in DOMAIN ws[i].profile
                                 THEN Append(F[i - 1], ws[i].profile[m].iqr)
                                 ELSE F[i - 1]
                      IN  F[Len(ws)]
           metric_vol(m) == IF vals(m) # <<>> THEN Median2(SortVals(vals(m))) ELSE 20
       IN  SumOver(MetricSet, [m \in MetricSet |-> metric_vol(m) * METRIC_WEIGHTS[m]])

\* Mutation of SegThreshold: without the floor of 8
SegThreshold_NoFloor(user_volatility) == Min2(3 * user_volatility, 2000)

\* max(8.0, min(user_volatility * 1.5, 25.0)), in units of 1/80
SegThreshold(user_volatility) == Max2(640, Min2(3 * user_volatility, 2000))

\* The accumulator a window opens: its span, its medians as the running
\* sums (a metric without a sum reads as 0, as profile_sum.get(m, 0.0)
\* does), and count 1
NewSeg(w) ==
  [start       |-> w.start,
   end         |-> w.end,
   profile_sum |-> [m \in MetricSet |-> IF m \in DOMAIN w.profile THEN w.profile[m].median ELSE 0],
   count       |-> 1]

\* days_gap > 7.0 between the window's start and the current segment's end
ForceBreak(w, current_seg) == w.start - current_seg.end > 7

\* Mutation of DiffBelow: the difference keeps its sign (no abs)
DiffBelow_Signed(w, current_seg, dynamic_threshold) ==
  LET D == SumOver(DOMAIN w.profile,
                   [m \in DOMAIN w.profile |->
                      (current_seg.profile_sum[m] - w.profile[m].median * current_seg.count)
                        * METRIC_WEIGHTS[m]])
  IN  4 * D < dynamic_threshold * current_seg.count

\* diff < dynamic_threshold, where diff is the weighted sum over the
\* window's metrics of |median - profile_sum / count|
DiffBelow(w, current_seg, dynamic_threshold) ==
  LET D == SumOver(DOMAIN w.profile,
                   [m \in DOMAIN w.profile |->
                      Abs(w.profile[m].median * current_seg.count - current_seg.profile_sum[m])
                        * METRIC_WEIGHTS[m]])
  IN  4 * D < dynamic_threshold * current_seg.count

\* Mutation of SegStep: a merged window only moves the segment's end, so
\* that profile_sum / count stays at the medians of the first window
SegStep_Anchored(acc, w, dynamic_threshold) ==
  IF DOMAIN w.profile = {} THEN acc
  ELSE IF acc.cur = <<>> THEN [acc EXCEPT !.cur = <<NewSeg(w)>>]
  ELSE LET current_seg == acc.cur[1]
       IN  IF DiffBelow(w, current_seg, dynamic_threshold) /\ ~ForceBreak(w, current_seg)
           THEN [acc EXCEPT !.cur = << [current_seg EXCEPT !.end = w.end] >>]
           ELSE [segs |-> Append(acc.segs, current_seg), cur |-> <<NewSeg(w)>>]

\* Mutation of SegStep: a window with an empty profile is walked like any
\* other window
SegStep_NoSkip(acc, w, dynamic_threshold) ==
  IF acc.cur = <<>> THEN [acc EXCEPT !.cur = <<NewSeg(w)>>]
  ELSE LET current_seg == acc.cur[1]
       IN  IF DiffBelow(w, current_seg, dynamic_threshold) /\ ~ForceBreak(w, current_seg)
           THEN [acc EXCEPT !.cur = << [current_seg EXCEPT
                     !.end = w.end,
                     !.profile_sum = [m \in MetricSet |->
                                        IF m \in DOMAIN w.profile
                                        THEN current_seg.profile_sum[m] + w.profile[m].median
                                        ELSE current_seg.profile_sum[m]],
                     !.count = current_seg.count + 1] >>]
           ELSE [segs |-> Append(acc.segs, current_seg), cur |-> <<NewSeg(w)>>]

\* One step of the walk over windows_base; acc.cur is <<>> or <<current_seg>>
SegStep(acc, w, dynamic_threshold) ==
  IF DOMAIN w.profile = {} THEN acc
  ELSE IF acc.cur = <<>> THEN [acc EXCEPT !.cur = <<NewSeg(w)>>]
  ELSE LET current_seg == acc.cur[1]
       IN  IF DiffBelow(w, current_seg, dynamic_threshold) /\ ~ForceBreak(w, current_seg)
           THEN [acc EXCEPT !.cur = << [current_seg EXCEPT
                     !.end = w.end,
                     !.profile_sum = [m \in MetricSet |->
                                        IF m \in DOMAIN w.profile
                                        THEN current_seg.profile_sum[m] + w.profile[m].median
                                        ELSE current_seg.profile_sum[m]],
                     !.count = current_seg.count + 1] >>]
           ELSE [segs |-> Append(acc.segs, current_seg), cur |-> <<NewSeg(w)>>]

\* The raw segments of the walk (lines 248-297)
WalkWindows(windows_base, dynamic_threshold) ==
  LET F[i \in 0..Len(windows_base)] ==
        IF i = 0 THEN [segs |-> <<>>, cur |-> <<>>]
        ELSE SegStep(F[i - 1], windows_base[i], dynamic_threshold)
      last == F[Len(windows_base)]
  IN  last.segs \o last.cur

\* Mutation of SegRecords: the record at the segment's end is left out
SegRecords_HalfOpen(recs, start, end) ==
  SelectSeq(recs, LAMBDA r : start <= r.datetime /\ r.datetime < end)

\* Mutation of SegRecords: the records at the segment's start and end are
\* both left out
SegRecords_Interior(recs, start, end) ==
  SelectSeq(recs, LAMBDA r : start < r.datetime /\ r.datetime < end)

\* [r for r in records if seg.start <= r.datetime <= seg.end]
SegRecords(recs, start, end) ==
  SelectSeq(recs, LAMBDA r : start <= r.datetime /\ r.datetime <= end)

\* Mutation of SegType: the stability is not looked at
SegType_CountOnly(count, stability) ==
  IF count >= 5 THEN "platform" ELSE "change"

SegType(count, stability) ==
  IF count >= 5 /\ 10 * stability.num >= stability.den THEN "platform" ELSE "change"

\* The final segment of a raw segment, as a sequence of zero or one segment
FinalSegment(recs, seg) ==
  LET seg_records == SegRecords(recs, seg.start, seg.end)
      seg_profile == _compute_profile(seg_records)
      seg_stability == _compute_stability(seg_profile)
  IN  IF seg_records = <<>> THEN <<>>
      ELSE << [start     |-> seg.start,
               end       |-> seg.end,
               profile   |-> seg_profile,
               stability |-> seg_stability,
               count     |-> Len(seg_records),
               type      |-> SegType(Len(seg_records), seg_stability)] >>

FinalSegments(recs, raw) ==
  LET F[i \in 0..Len(raw)] == IF i = 0 THEN <<>> ELSE F[i - 1] \o FinalSegment(recs, raw[i])
  IN  F[Len(raw)]

\* Mutation of Transitions: the indices count from 1
Transitions_OneBased(final_segments) ==
  [i \in 1..(IF final_segments = <<>> THEN 0 ELSE Len(final_segments) - 1) |->
     LET from_seg == final_segments[i]
         to_seg == final_segments[i + 1]
     IN  [from_idx  |-> i,
          to_idx    |-> i + 1,
          period    |-> [start |-> from_seg.end, end |-> to_seg.start],
          magnitude |-> [m \in DOMAIN from_seg.profile \cap DOMAIN to_seg.profile |->
                           to_seg.profile[m].median - from_seg.profile[m].median]]]

Transitions(final_segments) ==
  [i \in 1..(IF final_segments = <<>> THEN 0 ELSE Len(final_segments) - 1) |->
     LET from_seg == final_segments[i]
         to_seg == final_segments[i + 1]
     IN  [from_idx  |-> i - 1,
          to_idx    |-> i,
          period    |-> [start |-> from_seg.end, end |-> to_seg.start],
          magnitude |-> [m \in DOMAIN from_seg.profile \cap DOMAIN to_seg.profile |->
                           to_seg.profile[m].median - from_seg.profile[m].median]]]

\* Returns [segments, transitions]
_segment_states(recs, windows_base, dynamic_threshold) ==
  IF windows_base = <<>> THEN [segments |-> <<>>, transitions |-> <<>>]
  ELSE LET final_segments == FinalSegments(recs, WalkWindows(windows_base, dynamic_threshold))
       IN  [segments |-> final_segments, transitions |-> Transitions(final_segments)]

----------------------------------------------------------------------------
(* Symptoms of the segments                                                *)

\* str(e).lower().strip() on the tags the inputs use
Normalise(e) ==
  CASE e = " Chest_Pain" -> "chest_pain"
    [] e = "Dizzy "      -> "dizzy"
    [] OTHER             -> e

\* r.get("events") or r.get("symptoms") or [], normalised, as a set
EventsOf(r) == IF "events" \in DOMAIN r THEN {Normalise(e) : e \in r.events} ELSE {}

\* One set of tags per segment; the symptoms of the latest record are added
\* to the last entry, or form the only entry when there is no segment
_events_by_segment(recs, segs) ==
  LET results == [i \in 1..Len(segs) |->
                    UNION {EventsOf(recs[k]) :
                             k \in {j \in 1..Len(recs) : segs[i].start <= recs[j].datetime
                                                          /\ recs[j].datetime <= segs[i].end}}]
      latest_evs == IF recs = <<>> THEN {} ELSE EventsOf(recs[Len(recs)])
  IN  IF latest_evs = {} THEN results
      ELSE IF results = <<>> THEN <<latest_evs>>
           ELSE [results EXCEPT ![Len(results)] = @ \cup latest_evs]

----------------------------------------------------------------------------
(* analyze_steady_states                                                   *)

\* The windows of every configured scale (<<>> for a scale that is skipped)
ScaleWindows(sorted) == [l \in Labels |-> _slide_windows(sorted, SizeOf(l))]

\* Mutation of WindowsResult: a scale with a single window is skipped
WindowsResult_NeedsTwo(ws) ==
  [l \in {x \in Labels : Len(ws[x]) > 1} |->
     LET baseline == _select_baseline(ws[l])
     IN  [baseline |-> baseline, recent |-> _select_recent(ws[l], baseline)]]

\* windows_result: baseline and recent of every scale that has windows
WindowsResult(ws) ==
  [l \in {x \in Labels : ws[x] # <<>>} |->
     LET baseline == _select_baseline(ws[l])
     IN  [baseline |-> baseline, recent |-> _select_recent(ws[l], baseline)]]

\* trajectory[m]: the steps of metric m, in the order of WINDOW_SIZES
TrajectoryOf(wres, m) ==
  LET F[i \in 0..Len(WINDOW_SIZES)] ==
        IF i = 0 THEN <<>>
        ELSE LET l == WINDOW_SIZES[i].label
             IN  IF l \in DOMAIN wres
                 THEN F[i - 1] \o TrajectoryStep(l, wres[l].baseline, wres[l].recent, m)
                 ELSE F[i - 1]
  IN  F[Len(WINDOW_SIZES)]

\* The result of analyze_steady_states; all parts are empty for no records
\* (the function returns {}).  "all_windows" and "seg_threshold" are the
\* function's local values, kept for inspection.
analyze_steady_states(recs) ==
  IF recs = <<>>
  THEN [all_windows   |-> [l \in Labels |-> <<>>],
        windows       |-> <<>>,
        trajectory    |-> <<>>,
        seg_threshold |-> 0,
        segments      |-> <<>>,
        transitions   |-> <<>>,
        events_by_segment |-> <<>>]
  ELSE LET sorted == _sort_records(recs)
           ws == ScaleWindows(sorted)
           wres == WindowsResult(ws)
           windows_base == _slide_windows(sorted, SizeOf("5pt"))
           threshold == SegThreshold(_estimate_user_variability(windows_base))
           seg == _segment_states(sorted, windows_base, threshold)
       IN  [all_windows   |-> ws,
            windows       |-> wres,
            trajectory    |-> [m \in MetricSet |-> TrajectoryOf(wres, m)],
            seg_threshold |-> threshold,
            segments      |-> seg.segments,
            transitions   |-> seg.transitions,
            events_by_segment |-> _events_by_segment(sorted, seg.segments)]

----------------------------------------------------------------------------
(* Risk level (app/engine/risk_level.py) and its adapter in the server.    *)
(* Of the bundle the acute risk level, its reasons, the symptom level, the *)
(* scores and the plaque risk are modelled; the lifecycle state is not.    *)

HIGH_RISK_SYMPTOMS == {"chest_pain", "weakness_one_side", "slurred_speech",
                       "vision_loss", "confusion", "thunderclap_headache"}

MEDIUM_RISK_SYMPTOMS == {"chest_tightness", "dizzy", "palpitations",
                         "short_breath", "severe_headache"}

\* _get_val(obj, key, default) on a record or mapping
_get_val(obj, key, default) == IF key \in DOMAIN obj THEN obj[key] ELSE default

\* Mutation of _extract_context: events_by_segment is not looked at
_extract_context_LatestOnly(recs, steady_data, events) ==
  LET latest == _sort_records(recs)[Len(recs)]
      sbp == _get_val(latest, "sbp", 120)
      dbp == _get_val(latest, "dbp", 80)
  IN  [sbp       |-> sbp,
       dbp       |-> dbp,
       hr        |-> _get_val(latest, "hr", 70),
       pp        |-> sbp - dbp,
       symptoms  |-> EventsOf(latest),
       base_sbp  |-> _get_val(_get_val(steady_data, "base", <<>>), "sbp", 240),
       sbp_trend |-> _get_val(_get_val(steady_data, "trend", <<>>), "sbp", "stable")]

\* The latest record (last of the stable sort by time), its symptoms joined
\* with the last entry of events_by_segment, the baseline sbp and the trend
_extract_context(recs, steady_data, events) ==
  LET latest == _sort_records(recs)[Len(recs)]
      sbp == _get_val(latest, "sbp", 120)
      dbp == _get_val(latest, "dbp", 80)
      current_symptoms == EventsOf(latest)
  IN  [sbp       |-> sbp,
       dbp       |-> dbp,
       hr        |-> _get_val(latest, "hr", 70),
       pp        |-> sbp - dbp,
       symptoms  |-> IF events = <<>> THEN current_symptoms
                     ELSE current_symptoms \cup {Normalise(e) : e \in events[Len(events)]},
       base_sbp  |-> _get_val(_get_val(steady_data, "base", <<>>), "sbp", 240),
       sbp_trend |-> _get_val(_get_val(steady_data, "trend", <<>>), "sbp", "stable")]

\* Rules 1 to 3: symptoms, absolute thresholds, deviation from the baseline
\* (deviation = (sbp - base_sbp) / base_sbp, compared with 0.20)
RiskByRules(ctx, has_high_risk) ==
  LET diff2 == 2 * ctx.sbp - ctx.base_sbp
  IN  IF has_high_risk
      THEN [risk_level |-> "critical", reasons |-> <<"high_risk_symptoms">>]
      ELSE IF ctx.sbp >= 170 \/ ctx.dbp >= 105
      THEN [risk_level |-> "high", reasons |-> <<"threshold_violation">>]
      ELSE IF ctx.base_sbp # 0 /\ ctx.base_sbp >= 300 /\ ctx.sbp <= 115
      THEN [risk_level |-> "high", reasons |-> <<"hypoperfusion_risk">>]
      ELSE IF ctx.base_sbp # 0 /\ 5 * Abs(diff2) >= Abs(ctx.base_sbp)
      THEN [risk_level |-> IF diff2 * ctx.base_sbp > 0 THEN "high" ELSE "moderate",
            reasons    |-> <<"baseline_deviation">>]
      ELSE [risk_level |-> "low", reasons |-> <<>>]

\* Mutation of _evaluate_risk_level: without rule 6 (pulse pressure)
_evaluate_risk_level_NoPulseRule(ctx) ==
  LET has_high_risk == ctx.symptoms \cap HIGH_RISK_SYMPTOMS # {}
      has_med_risk == ctx.symptoms \cap MEDIUM_RISK_SYMPTOMS # {}
      r3 == RiskByRules(ctx, has_high_risk)
      r4 == IF r3.risk_level # "low" THEN r3
            ELSE IF ctx.base_sbp >= 320
            THEN [risk_level |-> "moderate_high",
                  reasons    |-> Append(r3.reasons, "chronic_high_base_critical")]
            ELSE IF ctx.base_sbp >= 280
            THEN [risk_level |-> "moderate",
                  reasons    |-> Append(r3.reasons, "chronic_high_base")]
            ELSE r3
      r5 == IF r4.risk_level = "low" /\ has_med_risk
            THEN [risk_level |-> "moderate", reasons |-> Append(r4.reasons, "med_risk_symptoms")]
            ELSE r4
      r6 == r5
  IN  [risk_level    |-> r6.risk_level,
       reasons       |-> r6.reasons,
       symptom_level |-> IF has_high_risk THEN "high"
                         ELSE IF has_med_risk THEN "medium" ELSE "none"]

\* Mutation of _evaluate_risk_level: without rule 5 (medium-risk symptoms)
_evaluate_risk_level_NoMediumRule(ctx) ==
  LET has_high_risk == ctx.symptoms \cap HIGH_RISK_SYMPTOMS # {}
      has_med_risk == ctx.symptoms \cap MEDIUM_RISK_SYMPTOMS # {}
      r3 == RiskByRules(ctx, has_high_risk)
      r4 == IF r3.risk_level # "low" THEN r3
            ELSE IF ctx.base_sbp >= 320
            THEN [risk_level |-> "moderate_high",
                  reasons    |-> Append(r3.reasons, "chronic_high_base_critical")]
            ELSE IF ctx.base_sbp >= 280
            THEN [risk_level |-> "moderate",
                  reasons    |-> Append(r3.reasons, "chronic_high_base")]
            ELSE r3
      r5 == r4
      r6 == IF r5.risk_level = "low" /\ ctx.pp >= 60
            THEN [risk_level |-> "moderate", reasons |-> Append(r5.reasons, "widened_pulse_pressure")]
            ELSE r5
  IN  [risk_level    |-> r6.risk_level,
       reasons       |-> r6.reasons,
       symptom_level |-> IF has_high_risk THEN "high"
                         ELSE IF has_med_risk THEN "medium" ELSE "none"]

\* Rules 4 to 6 apply while the level is still "low": chronic high
\* baseline, medium-risk symptoms, widened pulse pressure
_evaluate_risk_level(ctx) ==
  LET has_high_risk == ctx.symptoms \cap HIGH_RISK_SYMPTOMS # {}
      has_med_risk == ctx.symptoms \cap MEDIUM_RISK_SYMPTOMS # {}
      r3 == RiskByRules(ctx, has_high_risk)
      r4 == IF r3.risk_level # "low" THEN r3
            ELSE IF ctx.base_sbp >= 320
            THEN [risk_level |-> "moderate_high",
                  reasons    |-> Append(r3.reasons, "chronic_high_base_critical")]
            ELSE IF ctx.base_sbp >= 280
            THEN [risk_level |-> "moderate",
                  reasons    |-> Append(r3.reasons, "chronic_high_base")]
            ELSE r3
      r5 == IF r4.risk_level = "low" /\ has_med_risk
            THEN [risk_level |-> "moderate", reasons |-> Append(r4.reasons, "med_risk_symptoms")]
            ELSE r4
      r6 == IF r5.risk_level = "low" /\ ctx.pp >= 60
            THEN [risk_level |-> "moderate", reasons |-> Append(r5.reasons, "widened_pulse_pressure")]
            ELSE r5
  IN  [risk_level    |-> r6.risk_level,
       reasons       |-> r6.reasons,
       symptom_level |-> IF has_high_risk THEN "high"
                         ELSE IF has_med_risk THEN "medium" ELSE "none"]

\* chronic_tension and acute_push x 10, and int(score)
_calculate_scores(ctx, risk_level, symptom_level) ==
  LET chronic_tension == IF ctx.base_sbp >= 320 THEN 9
                         ELSE IF ctx.base_sbp >= 280 THEN 6
                         ELSE IF ctx.base_sbp >= 260 THEN 4 ELSE 1
      acute_push == IF ctx.sbp_trend = "up" THEN 7
                    ELSE IF ctx.sbp_trend = "down" THEN 2 ELSE 1
  IN  [chronic_tension |-> chronic_tension,
       acute_push      |-> acute_push,
       total_score     |-> 4 * chronic_tension + 4 * acute_push
                           + (IF symptom_level = "high" THEN 50
                              ELSE IF symptom_level = "medium" THEN 20 ELSE 0)
                           + (IF risk_level = "critical" THEN 20 ELSE 0)]

\* Mutation of _assess_plaque_risk: the score is not capped at 1.0
_assess_plaque_risk_Uncapped(ctx, pats) ==
  LET variability == _get_val(pats, "variability", "low")
      surge == _get_val(pats, "morning_surge", "absent")
      risk_score ==
          (IF ctx.pp >= 60 THEN 4 ELSE IF ctx.pp >= 50 THEN 2 ELSE 0)
        + (IF variability = "high" THEN 3 ELSE IF variability = "medium" THEN 1 ELSE 0)
        + (IF surge = "present" THEN 2 ELSE 0)
        + (IF ctx.hr > 90 THEN 1 ELSE 0)
        + (IF ctx.sbp > 160 THEN 2 ELSE 0)
  IN  [score   |-> risk_score,
       level   |-> IF risk_score >= 7 THEN "high"
                   ELSE IF risk_score >= 4 THEN "moderate" ELSE "low",
       reasons |-> (IF ctx.pp >= 60 THEN <<"high_pulse_pressure">> ELSE <<>>)
                   \o (IF variability = "high" THEN <<"high_bp_variability">> ELSE <<>>)
                   \o (IF surge = "present" THEN <<"morning_surge">> ELSE <<>>)
                   \o (IF ctx.hr > 90 THEN <<"tachycardia_stress">> ELSE <<>>)
                   \o (IF ctx.sbp > 160 THEN <<"high_wall_tension">> ELSE <<>>)]

\* The plaque risk: score x 10 from the pulse pressure, the variability,
\* the morning surge, the heart rate and the sbp, capped at 1.0; pats is
\* <<>> for patterns = None
_assess_plaque_risk(ctx, pats) ==
  LET variability == _get_val(pats, "variability", "low")
      surge == _get_val(pats, "morning_surge", "absent")
      risk_score == Min2(10,
          (IF ctx.pp >= 60 THEN 4 ELSE IF ctx.pp >= 50 THEN 2 ELSE 0)
        + (IF variability = "high" THEN 3 ELSE IF variability = "medium" THEN 1 ELSE 0)
        + (IF surge = "present" THEN 2 ELSE 0)
        + (IF ctx.hr > 90 THEN 1 ELSE 0)
        + (IF ctx.sbp > 160 THEN 2 ELSE 0))
  IN  [score   |-> risk_score,
       level   |-> IF risk_score >= 7 THEN "high"
                   ELSE IF risk_score >= 4 THEN "moderate" ELSE "low",
       reasons |-> (IF ctx.pp >= 60 THEN <<"high_pulse_pressure">> ELSE <<>>)
                   \o (IF variability = "high" THEN <<"high_bp_variability">> ELSE <<>>)
                   \o (IF surge = "present" THEN <<"morning_surge">> ELSE <<>>)
                   \o (IF ctx.hr > 90 THEN <<"tachycardia_stress">> ELSE <<>>)
                   \o (IF ctx.sbp > 160 THEN <<"high_wall_tension">> ELSE <<>>)]

\* Mutation of assess_risk_bundle: no records are assessed like one record
\* without any value
assess_risk_bundle_NoGuard(recs, steady_data, events, pats) ==
  LET rs == IF recs = <<>> THEN <<[datetime |-> 0]>> ELSE recs
      ctx == _extract_context(rs, steady_data, events)
      level == _evaluate_risk_level(ctx)
      scores == _calculate_scores(ctx, level.risk_level, level.symptom_level)
  IN  [acute_risk_level   |-> level.risk_level,
       assessment_reasons |-> level.reasons,
       symptom_level      |-> level.symptom_level,
       chronic_tension    |-> scores.chronic_tension,
       acute_push         |-> scores.acute_push,
       plaque_risk        |-> _assess_plaque_risk(ctx, pats),
       total_score        |-> scores.total_score]

assess_risk_bundle(recs, steady_data, events, pats) ==
  IF recs = <<>>
  THEN [acute_risk_level   |-> "low",
        assessment_reasons |-> <<>>,
        symptom_level      |-> "none",
        chronic_tension    |-> 0,
        acute_push         |-> 0,
        plaque_risk        |-> <<>>,
        total_score        |-> 0]
  ELSE LET ctx == _extract_context(recs, steady_data, events)
           level == _evaluate_risk_level(ctx)
           scores == _calculate_scores(ctx, level.risk_level, level.symptom_level)
       IN  [acute_risk_level   |-> level.risk_level,
            assessment_reasons |-> level.reasons,
            symptom_level      |-> level.symptom_level,
            chronic_tension    |-> scores.chronic_tension,
            acute_push         |-> scores.acute_push,
            plaque_risk        |-> _assess_plaque_risk(ctx, pats),
            total_score        |-> scores.total_score]

----------------------------------------------------------------------------
(* Patterns (app/engine/patterns.py): the two the plaque risk reads        *)

\* The hour of the day of a timestamp
HourOf(t) == 12

\* before 06:00 or after 22:00
_is_night(dt) == HourOf(dt) < 6 \/ HourOf(dt) > 22

\* from 05:00 to 10:00
_is_morning(dt) == 5 <= HourOf(dt) /\ HourOf(dt) <= 10

SumSeq(sq) ==
  LET F[i \in 0..Len(sq)] == IF i = 0 THEN 0 ELSE F[i - 1] + sq[i]
  IN  F[Len(sq)]

\* mean of the morning sbp minus the lowest night sbp: >= 35 present,
\* >= 20 mild
detect_morning_surge(recs) ==
  LET morning == SelectSeq(recs, LAMBDA r : _is_morning(r.datetime))
      night == SelectSeq(recs, LAMBDA r : _is_night(r.datetime))
      morning_sum == SumSeq([i \in 1..Len(morning) |-> morning[i].sbp])
      night_min == CHOOSE v \in {night[i].sbp : i \in 1..Len(night)} :
                      \A i \in 1..Len(night) : v <= night[i].sbp
  IN  IF morning = <<>> \/ night = <<>> THEN "insufficient_data"
      ELSE IF morning_sum - night_min * Len(morning) >= 35 * Len(morning) THEN "present"
      ELSE IF morning_sum - night_min * Len(morning) >= 20 * Len(morning) THEN "mild"
      ELSE "absent"

\* The standard deviation of the sbp (np.std, over n): sd < 8 low,
\* sd < 12 medium, else high; n^2 x variance = n x sum(x^2) - sum(x)^2
detect_variability(recs) ==
  LET n == Len(recs)
      total == SumSeq([i \in 1..n |-> recs[i].sbp])
      squares == SumSeq([i \in 1..n |-> recs[i].sbp * recs[i].sbp])
      var_n2 == n * squares - total * total
  IN  IF n < 5 THEN "insufficient_data"
      ELSE IF var_n2 < 64 * n * n THEN "low"
      ELSE IF var_n2 < 144 * n * n THEN "medium"
      ELSE "high"

analyze_patterns(recs) ==
  [morning_surge |-> detect_morning_surge(recs),
   variability   |-> detect_variability(recs)]

\* The baseline sbp and the sbp trend the server hands to the risk
\* assessment: the median of the recent 5pt window, or the latest record
\* and the step from the record before it when there is no 5pt window;
\* the trend is the status of the last sbp trajectory step when there is
\* one.  (The dbp baseline and trend are not read by the assessment.)
adapt_steady_for_risk_level(steady_res, recs) ==
  LET has_5pt == "5pt" \in DOMAIN steady_res.windows
      recent == steady_res.windows["5pt"].recent.profile
      latest == recs[Len(recs)]
      prev == recs[Len(recs) - 1]
      delta == _get_val(latest, "sbp", 0) - _get_val(prev, "sbp", 0)
      base_sbp == IF has_5pt
                  THEN IF DOMAIN recent # {} /\ "sbp" \in DOMAIN recent
                       THEN recent["sbp"].median ELSE 240
                  ELSE IF recs # <<>> THEN 2 * _get_val(latest, "sbp", 120) ELSE 240
      quick_trend == IF ~has_5pt /\ Len(recs) >= 2
                     THEN IF delta >= 5 THEN "up"
                          ELSE IF delta <= -5 THEN "down" ELSE "stable"
                     ELSE "stable"
      traj == steady_res.trajectory["sbp"]
  IN  [base  |-> [sbp |-> base_sbp],
       trend |-> [sbp |-> IF traj # <<>> THEN traj[Len(traj)].status ELSE quick_trend]]

----------------------------------------------------------------------------
(* Gap-aware risk (app/engine/temporal_logic/temporal_core.py and          *)
(* gap_aware_risk.py).  A BPRecord is [timestamp, sbp, dbp, hr]; its       *)
(* timestamp is in days.  None is <<>>.  A mean is the fraction            *)
(* [num, den] of the sum and the number of the values.                     *)

GAP_THRESHOLDS_DAYS == [mild |-> 3, moderate |-> 7, heavy |-> 14, severe |-> 30]

classify_gap(days) ==
  IF days <= GAP_THRESHOLDS_DAYS["mild"] THEN "none"
  ELSE IF days <= GAP_THRESHOLDS_DAYS["moderate"] THEN "mild"
  ELSE IF days <= GAP_THRESHOLDS_DAYS["heavy"] THEN "moderate"
  ELSE IF days <= GAP_THRESHOLDS_DAYS["severe"] THEN "heavy"
  ELSE "severe"

_compute_last_gap(recs) ==
  IF Len(recs) < 2 THEN <<>>
  ELSE LET gap_days == recs[Len(recs)].timestamp - recs[Len(recs) - 1].timestamp
       IN  [gap_hours    |-> 24 * gap_days,
            gap_category |-> classify_gap(gap_days),
            gap_days     |-> gap_days]

\* The windows' lengths in days
WindowsDays == [w \in {"7d", "14d", "30d"} |-> CASE w = "7d" -> 7 [] w = "14d" -> 14 [] w = "30d" -> 30]

\* start_idx is the 0-based index of the first record at or after
\* ref_time - days (0 when there is none), end_idx is len(records) - 1
_compute_windows(recs, ref_time) ==
  [key \in DOMAIN WindowsDays |->
     LET start_time == ref_time - WindowsDays[key]
         hits == {i \in 1..Len(recs) : recs[i].timestamp >= start_time}
     IN  [start_idx |-> IF hits = {} THEN 0
                        ELSE (CHOOSE i \in hits : \A j \in hits : i <= j) - 1,
          end_idx   |-> Len(recs) - 1]]

build_temporal_context(normalized_records) ==
  IF normalized_records = <<>>
  THEN [records |-> <<>>, last_record |-> <<>>, last_gap |-> <<>>, window_indices |-> <<>>]
  ELSE LET last_record == normalized_records[Len(normalized_records)]
       IN  [records        |-> normalized_records,
            last_record    |-> last_record,
            last_gap       |-> _compute_last_gap(normalized_records),
            window_indices |-> _compute_windows(normalized_records, last_record.timestamp)]

DELTA_THRESHOLDS == [small |-> 10, moderate |-> 20, large |-> 30]

\* delta is a fraction [num, den] with den > 0
_classify_delta(delta) ==
  LET d == Abs(delta.num)
  IN  IF d < DELTA_THRESHOLDS["small"] * delta.den THEN "none"
      ELSE IF d < DELTA_THRESHOLDS["moderate"] * delta.den THEN "small"
      ELSE IF d < DELTA_THRESHOLDS["large"] * delta.den THEN "moderate"
      ELSE "large"

_select_baseline_window(gap_category) ==
  IF gap_category \in {"none", "mild", "moderate"} THEN "7d" ELSE "30d"

\* Mutation of _compute_baseline_sbp: the slice runs to end_idx inclusive
_compute_baseline_sbp_WithLatest(recs, start_idx, end_idx) ==
  LET window == SubSeq(recs, start_idx + 1, end_idx + 1)
  IN  IF window = <<>> THEN <<>>
      ELSE [num |-> SumSeq([k \in 1..Len(window) |-> window[k].sbp]), den |-> Len(window)]

\* The mean sbp of records[start_idx:end_idx] (0-based, end_idx excluded),
\* None when the slice is empty
_compute_baseline_sbp(recs, start_idx, end_idx) ==
  IF end_idx - 1 < start_idx THEN <<>>
  ELSE LET window == SubSeq(recs, start_idx + 1, end_idx)
       IN  IF window = <<>> THEN <<>>
           ELSE [num |-> SumSeq([k \in 1..Len(window) |-> window[k].sbp]),
                 den |-> Len(window)]

_combine_gap_and_delta(gap_cat, delta_cat) ==
  IF delta_cat = "none" THEN "none"
  ELSE IF gap_cat \in {"none", "mild"}
       THEN CASE delta_cat = "small" -> "low"
              [] delta_cat = "moderate" -> "medium"
              [] delta_cat = "large" -> "high"
       ELSE IF delta_cat = "small" THEN "medium" ELSE "high"

\* The GapAwareRiskResult, or None; explanation_tokens repeats the other
\* fields, rounded, and is left out
evaluate_gap_aware_risk(tc) ==
  IF tc.last_record = <<>> \/ tc.last_gap = <<>> THEN <<>>
  ELSE LET gap == tc.last_gap
           gap_cat == gap.gap_category
           baseline_window == _select_baseline_window(gap_cat)
           win_idx == tc.window_indices[baseline_window]
           baseline_sbp == _compute_baseline_sbp(tc.records, win_idx.start_idx, win_idx.end_idx)
           new_sbp == tc.last_record.sbp
           delta == [num |-> new_sbp * baseline_sbp.den - baseline_sbp.num,
                     den |-> baseline_sbp.den]
           delta_cat == _classify_delta(delta)
       IN  IF baseline_sbp = <<>> THEN <<>>
           ELSE [gap_category    |-> gap_cat,
                 gap_days        |-> gap.gap_days,
                 baseline_window |-> baseline_window,
                 baseline_sbp    |-> baseline_sbp,
                 delta_sbp       |-> delta,
                 delta_category  |-> delta_cat,
                 risk_level      |-> _combine_gap_and_delta(gap_cat, delta_cat)]

----------------------------------------------------------------------------
(* Inputs                                                                  *)

\* Two complete readings: sbp differs by 20, dbp by 3, pp by 17, hr by 2
ReadingA == [sbp |-> 120, dbp |-> 80, pp |-> 40, hr |-> 70]

ReadingB == [sbp |-> 140, dbp |-> 83, pp |-> 57, hr |-> 72]

\* ReadingB without a heart rate (hr is None)
ReadingBNoHr == [sbp |-> 140, dbp |-> 83, pp |-> 57]

\* A record without any metric value (all four are None)
ReadingNone == <<>>

\* A reading at time t
At(t, reading) == [k \in DOMAIN reading \cup {"datetime"} |->
                     IF k = "datetime" THEN t ELSE reading[k]]

\* Most records a history holds
MaxRecords == 6

\* Most records of a history whose records may lack metrics
MaxSparse == 4

\* Most records of a history given in any order
MaxAnyOrder == 4

\* Most records of a history of equal readings in two clusters
MaxClusterRecords == 10

\* Most records of a history whose records may carry symptoms
MaxSymptomRecords == 6

\* Most records of a history of readings at three levels
MaxLevelRecords == 6

\* Most records of a history whose level drifts, seen by the engine alone
MaxDriftRecords == 7

\* Most records of a history with records that lack every metric
MaxMissingRecords == 7

\* Most records of a history given to the gap-aware risk
MaxGapRecords == 4

\* BPRecord(timestamp, sbp, dbp, hr)
BPRecord(timestamp, sbp) == [timestamp |-> timestamp, sbp |-> sbp, dbp |-> 80, hr |-> 70]

\* A reading at systolic level v: pp = sbp - dbp as the server computes it
Level(v) == [sbp |-> v, dbp |-> 80, pp |-> v - 80, hr |-> 70]

\* A reading with symptom tags as the client sent them
WithEvents(reading, tags) ==
  [k \in DOMAIN reading \cup {"events"} |-> IF k = "events" THEN tags ELSE reading[k]]

LastTime == IF records = <<>> THEN 0 ELSE records[Len(records)].datetime

----------------------------------------------------------------------------
(* State machine                                                           *)

Init ==
  /\ records = <<>>
  /\ windows = [l \in Labels |-> <<>>]
  /\ windows_result = <<>>
  /\ trajectory = <<>>
  /\ seg_threshold = 0
  /\ segments = <<>>
  /\ transitions = <<>>
  /\ events_by_segment = <<>>
  /\ steady_for_risk = <<>>
  /\ patterns = <<>>
  /\ risk_bundle = <<>>
  /\ temporal_context = build_temporal_context(<<>>)
  /\ gap_aware_risk = <<>>

\* A new measurement r arrives: it is appended to the history, the whole
\* history is analysed again and the risk is assessed on the result
Measure(r, max) ==
  /\ Len(records) < max
  /\ LET all_records == Append(records, r)
         res == analyze_steady_states(all_records)
         pats == analyze_patterns(all_records)
         steady_adapted == adapt_steady_for_risk_level(res, all_records)
     IN  /\ records' = all_records
         /\ windows' = res.all_windows
         /\ windows_result' = res.windows
         /\ trajectory' = res.trajectory
         /\ seg_threshold' = res.seg_threshold
         /\ segments' = res.segments
         /\ transitions' = res.transitions
         /\ events_by_segment' = res.events_by_segment
         /\ steady_for_risk' = steady_adapted
         /\ patterns' = pats
         /\ risk_bundle' = assess_risk_bundle(all_records, steady_adapted,
                                              res.events_by_segment, pats)
  /\ UNCHANGED <<temporal_context, gap_aware_risk>>

\* analyze_steady_states is called on the history with one more record r
\* (a call of the engine without the server, whose records may lack
\* metrics)
Analyse(r, max) ==
  /\ Len(records) < max
  /\ LET all_records == Append(records, r)
         res == analyze_steady_states(all_records)
     IN  /\ records' = all_records
         /\ windows' = res.all_windows
         /\ windows_result' = res.windows
         /\ trajectory' = res.trajectory
         /\ seg_threshold' = res.seg_threshold
         /\ segments' = res.segments
         /\ transitions' = res.transitions
         /\ events_by_segment' = res.events_by_segment
  /\ UNCHANGED <<steady_for_risk, patterns, risk_bundle, temporal_context, gap_aware_risk>>

\* Measurements arrive in time order, a day or eight days apart
Next ==
  \E gap \in {1, 8}, reading \in {ReadingA, ReadingB} :
     Measure(At(LastTime + (IF records = <<>> THEN 0 ELSE gap), reading), MaxRecords)

Spec == Init /\ [][Next]_vars

\* Measurements in time order whose records may lack the heart rate or
\* every metric
NextSparse ==
  \E gap \in {1, 8}, reading \in {ReadingA, ReadingB, ReadingBNoHr, ReadingNone} :
     Analyse(At(LastTime + (IF records = <<>> THEN 0 ELSE gap), reading), MaxSparse)

SpecSparse == Init /\ [][NextSparse]_vars

\* Measurements given in any order of their timestamps, which may repeat
NextAnyOrder ==
  \E day \in {0, 1, 2}, reading \in {ReadingA, ReadingB} :
     Measure(At(day, reading), MaxAnyOrder)

SpecAnyOrder == Init /\ [][NextAnyOrder]_vars

\* Equal readings, a day or nine days apart
NextClusters ==
  \E gap \in {1, 9} :
     Measure(At(LastTime + (IF records = <<>> THEN 0 ELSE gap), ReadingA), MaxClusterRecords)

SpecClusters == Init /\ [][NextClusters]_vars

\* Daily measurements, some reported with a symptom
NextSymptoms ==
  \E reading \in {ReadingA, ReadingB, WithEvents(ReadingA, {" Chest_Pain"}),
                   WithEvents(ReadingB, {"Dizzy "})} :
     Measure(At(LastTime + (IF records = <<>> THEN 0 ELSE 1), reading), MaxSymptomRecords)

SpecSymptoms == Init /\ [][NextSymptoms]_vars

\* Daily measurements at systolic levels 120, 124 and 130
NextLevels ==
  \E v \in {120, 124, 130} :
     Measure(At(LastTime + (IF records = <<>> THEN 0 ELSE 1), Level(v)), MaxLevelRecords)

SpecLevels == Init /\ [][NextLevels]_vars

\* Daily readings at systolic levels 120, 124 and 130, analysed by the
\* engine alone
NextDrift ==
  \E v \in {120, 124, 130} :
     Analyse(At(LastTime + (IF records = <<>> THEN 0 ELSE 1), Level(v)), MaxDriftRecords)

SpecDrift == Init /\ [][NextDrift]_vars

\* Daily records, some of them without any metric value, analysed by the
\* engine alone
NextMissing ==
  \E reading \in {ReadingA, ReadingB, ReadingNone} :
     Analyse(At(LastTime + (IF records = <<>> THEN 0 ELSE 1), reading), MaxMissingRecords)

SpecMissing == Init /\ [][NextMissing]_vars

\* evaluate_gap_aware_risk is called on the context built from the history
\* with one more record r
EvaluateGap(r, max) ==
  /\ Len(temporal_context.records) < max
  /\ LET tc == build_temporal_context(Append(temporal_context.records, r))
     IN  /\ temporal_context' = tc
         /\ gap_aware_risk' = evaluate_gap_aware_risk(tc)
  /\ UNCHANGED <<records, windows, windows_result, trajectory, seg_threshold, segments,
                 transitions, events_by_segment, steady_for_risk, patterns, risk_bundle>>

\* Records in time order; the gaps lie on both sides of every threshold
NextGaps ==
  \E gap \in {1, 3, 4, 7, 8, 14, 15, 30, 31}, sbp \in {120, 150} :
     LET recs == temporal_context.records
         t == IF recs = <<>> THEN 0 ELSE recs[Len(recs)].timestamp + gap
     IN  EvaluateGap(BPRecord(t, sbp), MaxGapRecords)

SpecGaps == Init /\ [][NextGaps]_vars

----------------------------------------------------------------------------
(* Direct calls of assess_risk_bundle, as in test_risk_level.py            *)

\* The latest record of a call: a normal, a raised and a very high sbp, a
\* normal and a very high dbp, a normal and a fast heart rate, with or
\* without a symptom
RiskLatest ==
  {At(1, WithEvents([sbp |-> sbp, dbp |-> dbp, pp |-> sbp - dbp, hr |-> hr], tags)) :
     sbp \in {110, 120, 130, 150, 175}, dbp \in {70, 110}, hr \in {70, 95},
     tags \in {{}, {"Dizzy "}, {" Chest_Pain"}, {"headache"}}}

\* An earlier record that reported a high-risk symptom
RiskEarlier == At(0, WithEvents(ReadingA, {"slurred_speech"}))

\* The record lists of a call: none, the latest record alone, after the
\* earlier record, and before it (not in time order)
RiskRecords ==
  {<<>>} \cup {<<r>> : r \in RiskLatest} \cup {<<RiskEarlier, r>> : r \in RiskLatest}
  \cup {<<r, RiskEarlier>> : r \in RiskLatest}

\* steady_data: none, or a baseline sbp of 120, 150 or 165 with a trend
RiskSteady ==
  {<<>>} \cup {[base |-> [sbp |-> b], trend |-> [sbp |-> t]] :
                 b \in {240, 300, 330}, t \in {"stable", "up"}}

\* events_by_segment of a call
RiskEvents ==
  {<<>>, <<{}>>, <<{"chest_pain"}>>, <<{"chest_pain"}, {"dizzy"}>>}

\* patterns of a call: none, or a variability with a morning surge
RiskPatterns ==
  {<<>>,
   [variability |-> "high", morning_surge |-> "present"],
   [variability |-> "medium", morning_surge |-> "absent"],
   [variability |-> "low", morning_surge |-> "mild"]}

\* assess_risk_bundle(recs, steady_data, events, patterns) is called once
AssessDirect(recs, steady_data, events, pats) ==
  /\ risk_bundle = <<>>
  /\ records' = recs
  /\ steady_for_risk' = steady_data
  /\ events_by_segment' = events
  /\ patterns' = pats
  /\ risk_bundle' = assess_risk_bundle(recs, steady_data, events, pats)
  /\ UNCHANGED <<windows, windows_result, trajectory, seg_threshold, segments, transitions,
                 temporal_context, gap_aware_risk>>

NextRisk ==
  \E recs \in RiskRecords, steady_data \in RiskSteady, events \in RiskEvents,
     pats \in RiskPatterns :
     AssessDirect(recs, steady_data, events, pats)

SpecRisk == Init /\ [][NextRisk]_vars

----------------------------------------------------------------------------
(* The series of test_steady_state.py (setUp) and the call of              *)
(* test_segment_states                                                     *)

\* Records at the low level, then records at the high level
LowCount == 10

HighCount == 10

\* Record i (from 0) of the series: daily; sbp and dbp carry the noise
\* a * (i % 2) at the low level and b * (i % 3) at the high level; with
\* "coupled" the dbp, pp and hr rise with the sbp as in setUp, without it
\* everything but the sbp stays at its level
SeriesRecord(i, low, jump, a, b, coupled) ==
  IF i < LowCount
  THEN [datetime |-> i, sbp |-> low + a * (i % 2), dbp |-> 80 + a * (i % 2),
        pp |-> 40, hr |-> 70]
  ELSE [datetime |-> i, sbp |-> low + jump + b * (i % 3),
        dbp |-> (IF coupled THEN 90 ELSE 80) + b * (i % 3),
        pp |-> IF coupled THEN 50 ELSE 40, hr |-> IF coupled THEN 80 ELSE 70]

Series(low, jump, a, b, coupled) ==
  [k \in 1..(LowCount + HighCount) |-> SeriesRecord(k - 1, low, jump, a, b, coupled)]

InitSeries ==
  /\ \E low \in {110, 120}, jump \in {18, 20, 22}, a \in {0, 1}, b \in {0, 1},
        coupled \in BOOLEAN :
        records = Series(low, jump, a, b, coupled)
  /\ windows = [l \in Labels |-> <<>>]
  /\ windows_result = <<>>
  /\ trajectory = <<>>
  /\ seg_threshold = 0
  /\ segments = <<>>
  /\ transitions = <<>>
  /\ events_by_segment = <<>>
  /\ steady_for_risk = <<>>
  /\ patterns = <<>>
  /\ risk_bundle = <<>>
  /\ temporal_context = build_temporal_context(<<>>)
  /\ gap_aware_risk = <<>>

\* Largest sbp of the low level and smallest sbp of the high level
MaxLow == CHOOSE v \in {records[k].sbp : k \in 1..LowCount} :
             \A k \in 1..LowCount : records[k].sbp <= v

MinHigh == CHOOSE v \in {records[k].sbp : k \in (LowCount + 1)..Len(records)} :
              \A k \in (LowCount + 1)..Len(records) : v <= records[k].sbp

\* test_segment_states: the 5-record windows of the series are segmented
\* with a threshold given by the caller
SegmentSeries(dynamic_threshold) ==
  /\ seg_threshold = 0
  /\ LET ws == _slide_windows(records, SizeOf("5pt"))
         seg == _segment_states(records, ws, dynamic_threshold)
     IN  /\ windows' = [l \in Labels |-> IF l = "5pt" THEN ws ELSE <<>>]
         /\ seg_threshold' = dynamic_threshold
         /\ segments' = seg.segments
         /\ transitions' = seg.transitions
  /\ UNCHANGED <<records, windows_result, trajectory, events_by_segment,
                 steady_for_risk, patterns, risk_bundle, temporal_context, gap_aware_risk>>

\* test_analyze_steady_states_integration: the series is analysed whole
AnalyzeSeries ==
  /\ seg_threshold = 0
  /\ LET res == analyze_steady_states(records)
     IN  /\ windows' = res.all_windows
         /\ windows_result' = res.windows
         /\ trajectory' = res.trajectory
         /\ seg_threshold' = res.seg_threshold
         /\ segments' = res.segments
         /\ transitions' = res.transitions
         /\ events_by_segment' = res.events_by_segment
  /\ UNCHANGED <<records, steady_for_risk, patterns, risk_bundle, temporal_context,
                 gap_aware_risk>>

\* Thresholds 5.0 (the test's), 8.0, 15.0, and the largest below the jump
NextSeries ==
  \/ \E th \in {400, 640, 1200, 80 * (MinHigh - MaxLow) - 1} : SegmentSeries(th)
  \/ AnalyzeSeries

SpecSeries == InitSeries /\ [][NextSeries]_vars

----------------------------------------------------------------------------
(* Helpers of the properties                                               *)

StabEq(a, b) == a.num * b.den = b.num * a.den

RangeOf(s) == {s[i] : i \in 1..Len(s)}

\* |last end - w.end|: the distance _select_recent sorts by
DistToEnd(ws, w) == Abs(ws[Len(ws)].end - w.end)

\* The records with the gap after position j (1-based, in time order)
\* enlarged to new_gap days; every metric value stays the same
InflateGap(sorted, j, new_gap) ==
  LET shift == new_gap - (sorted[j + 1].datetime - sorted[j].datetime)
  IN  [i \in 1..Len(sorted) |->
         IF i <= j THEN sorted[i]
         ELSE [sorted[i] EXCEPT !.datetime = sorted[i].datetime + shift]]

\* Window sizes the window properties are tried with: every size up to one
\* more than the length of the history, and the configured scales
TrySizes == (1..(Len(records) + 1)) \cup {WINDOW_SIZES[i].size : i \in 1..Len(WINDOW_SIZES)}

----------------------------------------------------------------------------
(* C1  Segments are chronologically ordered and pairwise non-overlapping:  *)
(* for adjacent segments i and i+1, segment[i].end is not later than       *)
(* segment[i+1].start, so no record timestamp lies inside two segments.    *)
(* The code closes a segment at the end of one sliding window and opens    *)
(* the next at the start of the following window, which lies earlier.      *)
C1_SegmentsDoNotOverlap ==
  /\ \A i \in 1..(Len(segments) - 1) : segments[i].end <= segments[i + 1].start
  /\ \A k \in 1..Len(records) :
       Cardinality({i \in 1..Len(segments) :
                      segments[i].start <= records[k].datetime
                      /\ records[k].datetime <= segments[i].end}) <= 1

----------------------------------------------------------------------------
(* C3  _slide_windows on n records with window size w returns exactly      *)
(* n - w + 1 windows when n >= w and none when n < w; the i-th window      *)
(* (0-based) has start_idx = i and end_idx = i + w and covers the sorted   *)
(* records [i, i + w).                                                     *)
C3_WindowCount ==
  LET n == Len(records)
      sorted == _sort_records(records)
  IN  /\ \A w \in TrySizes :
           LET ws == _slide_windows(records, w)
           IN  /\ n >= w => Len(ws) = n - w + 1
               /\ n < w => ws = <<>>
               /\ \A k \in 1..Len(ws) :
                    /\ ws[k].start_idx = k - 1
                    /\ ws[k].end_idx = k - 1 + w
                    /\ ws[k].start = sorted[k].datetime
                    /\ ws[k].end = sorted[k - 1 + w].datetime
                    /\ ws[k].profile = _compute_profile(SubSeq(sorted, k, k - 1 + w))
      /\ \A l \in Labels : windows[l] = _slide_windows(records, SizeOf(l))

\* Four records: two windows of the 3pt scale, none of the 5pt scale
C3_Witness ==
  /\ Len(records) = 4
  /\ Len(windows["3pt"]) = 2
  /\ windows["3pt"][2].start_idx = 1 /\ windows["3pt"][2].end_idx = 4
  /\ windows["5pt"] = <<>>

----------------------------------------------------------------------------
(* C5  For every scale with windows, the baseline is a window of the scale *)
(* whose stability (after the gap penalty) is >= that of every other       *)
(* window, and among windows of maximal stability it is the one with the   *)
(* smallest start index.                                                   *)
C5_BaselineIsFirstArgMax ==
  \A l \in Labels :
     IF windows[l] = <<>> THEN l \notin DOMAIN windows_result
     ELSE /\ l \in DOMAIN windows_result
          /\ LET b == windows_result[l].baseline
                 ws == windows[l]
             IN  /\ b \in RangeOf(ws)
                 /\ ws[b.start_idx + 1] = b
                 /\ \A i \in 1..Len(ws) :
                      /\ ~StabLess(b.stability, ws[i].stability)
                      /\ StabEq(b.stability, ws[i].stability) => b.start_idx <= ws[i].start_idx

\* A scale where the maximum is attained by two windows, the baseline is
\* the earlier one, and a less stable window comes before both
C5_Witness ==
  \E l \in DOMAIN windows_result :
     LET b == windows_result[l].baseline
         ws == windows[l]
     IN  /\ b.start_idx > 0
         /\ StabLess(ws[1].stability, b.stability)
         /\ \E i \in 1..Len(ws) : ws[i].start_idx > b.start_idx /\ StabEq(ws[i].stability, b.stability)

----------------------------------------------------------------------------
(* C6  _select_recent returns, among the windows whose stability is        *)
(* >= 0.5 x the baseline stability, one whose end time is closest to the   *)
(* end time of the last window; only when no window meets the floor does   *)
(* it return the window closest to the end unconditionally.  A window of   *)
(* the list is always returned.                                            *)

\* What the claim asks of the window r returned for list ws and baseline b
RecentIsClosestQualified(ws, b, r) ==
  LET qualified == {i \in 1..Len(ws) : StabAtLeastHalf(ws[i].stability, b.stability)}
  IN  /\ r \in RangeOf(ws)
      /\ IF qualified # {}
         THEN /\ StabAtLeastHalf(r.stability, b.stability)
              /\ \A i \in qualified : DistToEnd(ws, r) <= DistToEnd(ws, ws[i])
         ELSE \A i \in 1..Len(ws) : DistToEnd(ws, r) <= DistToEnd(ws, ws[i])

\* A baseline that is no window of the list: a perfectly stable window
\* (the function takes any baseline; analyze_steady_states passes the
\* list's own)
PerfectBaseline == [stability |-> [num |-> 1, den |-> 1]]

C6_RecentIsClosestQualified ==
  \A l \in DOMAIN windows_result :
     LET ws == windows[l]
     IN  /\ RecentIsClosestQualified(ws, windows_result[l].baseline, windows_result[l].recent)
         /\ \A b \in RangeOf(ws) \cup {PerfectBaseline} :
              RecentIsClosestQualified(ws, b, _select_recent(ws, b))

\* The floor decides: the window nearest the end is too unstable, and the
\* recent window is an earlier one
C6_Witness ==
  \E l \in DOMAIN windows_result :
     LET ws == windows[l]
         b == windows_result[l].baseline
         r == windows_result[l].recent
     IN  /\ ~StabAtLeastHalf(ws[Len(ws)].stability, b.stability)
         /\ r.end < ws[Len(ws)].end
         /\ StabAtLeastHalf(r.stability, b.stability)
         /\ \E i \in 1..Len(ws) : ws[i].end < r.end

----------------------------------------------------------------------------
(* C7  Gap penalty.  A window whose largest gap between consecutive        *)
(* records is <= 7 days keeps the unpenalised stability                    *)
(* 1 / (1 + weighted mean IQR); when one of its internal gaps is enlarged  *)
(* beyond 7 days and every metric value stays the same, its stability      *)
(* becomes stability / (1 + (max_gap - 7)), strictly lower than before.    *)

\* Gaps an internal gap is enlarged to
InflatedGaps == {8, 9, 30}

\* 1 / (1 + weighted mean IQR) of a profile with metrics, from the profile's
\* iqr fields (half units) and the weights (x 10)
UnpenalisedStability(profile) ==
  LET W == SumOver(DOMAIN profile, [m \in DOMAIN profile |-> METRIC_WEIGHTS[m]])
      I == SumOver(DOMAIN profile, [m \in DOMAIN profile |-> METRIC_WEIGHTS[m] * profile[m].iqr])
  IN  [num |-> 2 * W, den |-> 2 * W + I]

C7_GapPenalty ==
  \A l \in Labels : \A k \in 1..Len(windows[l]) :
     LET w == windows[l][k]
         size == SizeOf(l)
         sorted == _sort_records(records)
         unpen == UnpenalisedStability(w.profile)
     IN  w.max_gap_days <= 7 =>
           /\ StabEq(w.stability, unpen)
           /\ \A j \in k..(k + size - 2) : \A g \in InflatedGaps :
                LET v == _slide_windows(InflateGap(sorted, j, g), size)[k]
                IN  /\ v.profile = w.profile
                    /\ v.max_gap_days = g
                    /\ v.stability.num * unpen.den * (1 + (g - 7)) = unpen.num * v.stability.den
                    /\ StabLess(v.stability, w.stability)

\* A history with a window whose gaps are all one day, and the history
\* that differs from it by one gap of eight days: the second window's
\* stability is half the first's
C7_Witness ==
  /\ Len(records) = 3
  /\ windows["3pt"][1].max_gap_days = 8
  /\ windows["3pt"][1].profile["sbp"].iqr > 0
  /\ LET daily == [i \in 1..3 |-> [records[i] EXCEPT !.datetime = i]]
         w == _slide_windows(daily, 3)[1]
     IN  /\ w.max_gap_days = 1
         /\ w.profile = windows["3pt"][1].profile
         /\ 2 * windows["3pt"][1].stability.num * w.stability.den
              = w.stability.num * windows["3pt"][1].stability.den

----------------------------------------------------------------------------
(* C8  Every window produced by _slide_windows, for any record sequence    *)
(* and any window size, has a stability in [0, 1]; the stability is        *)
(* strictly greater than 0 exactly when at least one record of the window  *)
(* has a metric value (also under a gap penalty), and it is 0 for a window *)
(* whose records have no metric value at all.                              *)

AllWindows == UNION {RangeOf(_slide_windows(records, w)) : w \in TrySizes}
                \cup UNION {RangeOf(windows[l]) : l \in Labels}

HasMetricValue(w) ==
  LET sorted == _sort_records(records)
  IN  \E i \in (w.start_idx + 1)..w.end_idx : DOMAIN sorted[i] # {"datetime"}

C8_StabilityRange ==
  \A w \in AllWindows :
     /\ w.stability.den > 0
     /\ 0 <= w.stability.num
     /\ w.stability.num <= w.stability.den
     /\ w.stability.num > 0 <=> HasMetricValue(w)

\* C8 as stated: every window has a stability strictly greater than 0 and
\* at most 1, also with a gap penalty and with missing metric values
C8_StabilityPositive ==
  \A w \in AllWindows :
     /\ w.stability.den > 0
     /\ 0 < w.stability.num
     /\ w.stability.num <= w.stability.den

\* Three windows of the 3pt scale in one history: one without any metric
\* value (stability 0), one with a missing heart rate and a gap penalty
\* (stability strictly between 0 and 1)
C8_Witness ==
  /\ \E k \in 1..Len(windows["3pt"]) :
       LET w == windows["3pt"][k]
       IN  ~HasMetricValue(w) /\ w.stability.num = 0
  /\ \E k \in 1..Len(windows["3pt"]) :
       LET w == windows["3pt"][k]
       IN  /\ "hr" \notin DOMAIN w.profile /\ "sbp" \in DOMAIN w.profile
           /\ w.max_gap_days > 7
           /\ 0 < w.stability.num /\ w.stability.num < w.stability.den

----------------------------------------------------------------------------
(* C9  For every scale that yields windows and every metric present in     *)
(* both the baseline and the recent profile, the trajectory holds one step *)
(* with delta = recent median - baseline median and status "stable" when   *)
(* |delta| < 3, "up" when delta >= 3, "down" when delta <= -3 (baseline    *)
(* SBP median 110 and recent SBP median 140: delta 30, "up"); a metric     *)
(* missing from either profile yields no step.  (Medians and deltas are in *)
(* half units: 3 reads 6.)                                                 *)

StepsOf(m, l) == SelectSeq(trajectory[m], LAMBDA st : st.window = l)

C9_TrajectoryStep ==
  /\ records # <<>> =>
       \A l \in Labels : \A m \in MetricSet :
          IF /\ windows[l] # <<>>
             /\ m \in DOMAIN windows_result[l].baseline.profile
             /\ m \in DOMAIN windows_result[l].recent.profile
          THEN LET b == windows_result[l].baseline.profile[m].median
                   r == windows_result[l].recent.profile[m].median
                   steps == StepsOf(m, l)
               IN  /\ Len(steps) = 1
                   /\ steps[1].delta = r - b
                   /\ steps[1].baseline = b /\ steps[1].recent = r
                   /\ steps[1].status \in {"stable", "up", "down"}
                   /\ steps[1].status = "stable" <=> (-6 < r - b /\ r - b < 6)
                   /\ steps[1].status = "up" <=> r - b >= 6
                   /\ steps[1].status = "down" <=> r - b <= -6
          ELSE StepsOf(m, l) = <<>>
  /\ LET sbp110 == [profile |-> [sbp |-> [median |-> 220]]]
         sbp140 == [profile |-> [sbp |-> [median |-> 280]]]
         step == TrajectoryStep("5pt", sbp110, sbp140, "sbp")
     IN  Len(step) = 1 /\ step[1].delta = 60 /\ step[1].status = "up"

\* A scale whose trajectory has a dbp step "up" with delta exactly 3 and an
\* sbp step with delta 20, but no hr step, the hr being absent from the
\* recent profile
C9_Witness ==
  /\ "3pt" \in DOMAIN windows_result
  /\ "hr" \in DOMAIN windows_result["3pt"].baseline.profile
  /\ "hr" \notin DOMAIN windows_result["3pt"].recent.profile
  /\ StepsOf("hr", "3pt") = <<>>
  /\ Len(StepsOf("dbp", "3pt")) = 1
  /\ StepsOf("dbp", "3pt")[1].delta = 6
  /\ StepsOf("dbp", "3pt")[1].status = "up"
  /\ StepsOf("sbp", "3pt")[1].delta = 40

----------------------------------------------------------------------------
(* C2  Forced break: when the records form two clusters with identical     *)
(* per-metric medians separated by a time gap of more than 7 days, each    *)
(* cluster filling at least one 5-record window, the segmentation places   *)
(* the two clusters in different segments: there are at least two          *)
(* segments and none holds records of both clusters.                       *)

\* The records are in time order, the only gap of more than 7 days is the
\* one after record k, and the clusters before and after it have the same
\* medians
TwoClustersAt(k) ==
  LET first == SubSeq(records, 1, k)
      second == SubSeq(records, k + 1, Len(records))
      p1 == _compute_profile(first)
      p2 == _compute_profile(second)
  IN  /\ \A i \in 1..(Len(records) - 1) :
           LET gap == records[i + 1].datetime - records[i].datetime
           IN  gap >= 0 /\ (gap > 7 <=> i = k)
      /\ DOMAIN p1 = DOMAIN p2
      /\ \A m \in DOMAIN p1 : p1[m].median = p2[m].median

C2_ForcedBreak ==
  \A k \in 5..(Len(records) - 5) :
     TwoClustersAt(k) =>
       /\ Len(segments) >= 2
       /\ \A i \in 1..Len(segments) :
            ~(segments[i].start <= records[k].datetime
              /\ records[k + 1].datetime <= segments[i].end)

----------------------------------------------------------------------------
(* C4  Determinism under permutation: any two orderings of the same        *)
(* records, timestamps that repeat included, give identical windows,       *)
(* trajectory, segments and transitions.  Every ordering is reached from   *)
(* any other by exchanging neighbours, so the formula compares the         *)
(* analysis of the history with that of each such exchange.                *)

SwapAt(s, i) == [k \in 1..Len(s) |-> IF k = i THEN s[i + 1] ELSE IF k = i + 1 THEN s[i] ELSE s[k]]

C4_PermutationInvariant ==
  \A i \in 1..(Len(records) - 1) :
     LET res == analyze_steady_states(SwapAt(records, i))
     IN  /\ res.windows = windows_result
         /\ res.trajectory = trajectory
         /\ res.segments = segments
         /\ res.transitions = transitions

----------------------------------------------------------------------------
(* C10  Segmentation separation: a daily series of 10 records at one       *)
(* level followed by 10 records at a level about 20 sbp points higher,     *)
(* segmented over its 5-record windows with a threshold below the jump     *)
(* (below the distance between the highest low and the lowest high sbp),   *)
(* gives at least 2 segments; the first segment's sbp median is within 2   *)
(* of the low level and the last segment's is above low level + 15.        *)
(* (Medians are in half units, the threshold in units of 1/80.)            *)

SeriesLow == records[1].sbp

C10_SegmentationSeparation ==
  (seg_threshold > 0 /\ seg_threshold < 80 * (MinHigh - MaxLow)) =>
     /\ Len(segments) >= 2
     /\ Abs(segments[1].profile["sbp"].median - 2 * SeriesLow) <= 2 * 2
     /\ segments[Len(segments)].profile["sbp"].median > 2 * (SeriesLow + 15)
     /\ segments[Len(segments)].profile["sbp"].median >= 2 * MinHigh

\* The series of setUp segmented with threshold 5.0: two segments, the
\* medians 121 and 141
C10_Witness ==
  /\ records = Series(120, 20, 1, 1, TRUE)
  /\ seg_threshold = 400
  /\ Len(segments) = 2
  /\ segments[1].profile["sbp"].median = 242
  /\ segments[2].profile["sbp"].median = 282

----------------------------------------------------------------------------
(* C11  Round trip of a segment: its profile is _compute_profile of        *)
(* exactly the raw records whose timestamp t has start <= t <= end, its    *)
(* stability is _compute_stability of that profile and its count is the    *)
(* number of those records; the medians averaged while clustering are not  *)
(* used.                                                                   *)
C11_SegmentRoundTrip ==
  \A i \in 1..Len(segments) :
     LET s == segments[i]
         inside == {k \in 1..Len(records) :
                      s.start <= records[k].datetime /\ records[k].datetime <= s.end}
         raw == SelectSeq(records, LAMBDA r : \E k \in inside : r = records[k])
     IN  /\ s.count = Cardinality(inside)
         /\ Len(raw) = s.count
         /\ s.profile = _compute_profile(raw)
         /\ s.stability = _compute_stability(_compute_profile(raw))

\* Two merged windows: one segment over six records, two at sbp 120 and
\* four at sbp 140 (median 140, iqr 20)
C11_Witness ==
  /\ Len(segments) = 1
  /\ segments[1].count = 6
  /\ segments[1].profile["sbp"].median = 280
  /\ segments[1].profile["sbp"].iqr = 40

----------------------------------------------------------------------------
(* C12  A segment's type is "platform" exactly when its count is at least  *)
(* 5 and its stability is at least 0.1, and "change" otherwise; there is   *)
(* no other type.                                                          *)
C12_SegmentType ==
  \A i \in 1..Len(segments) :
     LET s == segments[i]
     IN  /\ s.type \in {"platform", "change"}
         /\ s.type = "platform" <=>
              (s.count >= 5 /\ 10 * s.stability.num >= s.stability.den)

\* A segment of five records or more whose stability is below 0.1
C12_Witness ==
  \E i \in 1..Len(segments) :
     /\ segments[i].count >= 5
     /\ 10 * segments[i].stability.num < segments[i].stability.den
     /\ segments[i].type = "change"

----------------------------------------------------------------------------
(* C13  There are exactly max(0, len(segments) - 1) transitions and the    *)
(* i-th (from 0) has from_idx = i and to_idx = i + 1: one for every pair   *)
(* of adjacent segments, none for a single segment, and neither segments   *)
(* nor transitions when there is no 5-record window.                       *)
C13_TransitionCount ==
  /\ Len(transitions) = Max2(0, Len(segments) - 1)
  /\ \A i \in 1..Len(transitions) :
       /\ transitions[i].from_idx = i - 1
       /\ transitions[i].to_idx = i
  /\ windows["5pt"] = <<>> => (segments = <<>> /\ transitions = <<>>)
  /\ Len(segments) = 1 => transitions = <<>>

\* Two segments and the transition between them
C13_Witness ==
  /\ Len(segments) = 2
  /\ Len(transitions) = 1
  /\ transitions[1].from_idx = 0
  /\ transitions[1].to_idx = 1

----------------------------------------------------------------------------
(* C14  The period of a transition runs from the end of the earlier        *)
(* segment to the start of the later one and lies between the two:         *)
(* period.start = from_segment.end, period.end = to_segment.start and      *)
(* period.start <= period.end.  Adjacent segments come from overlapping    *)
(* windows, so the code's period ends before it starts.                    *)
C14_PeriodBetween ==
  \A i \in 1..Len(transitions) :
     LET t == transitions[i]
     IN  /\ t.period.start = segments[t.from_idx + 1].end
         /\ t.period.end = segments[t.to_idx + 1].start
         /\ t.period.start <= t.period.end

----------------------------------------------------------------------------
(* C16  Too few records is not an error: for n >= 1 records with numeric   *)
(* metrics the windows mapping holds a scale's label exactly when n is at  *)
(* least the scale's size (none for n < 3), segments and transitions are   *)
(* empty for n < 5, and no records give an empty result.                   *)
C16_Insufficiency ==
  LET n == Len(records)
  IN  /\ \A l \in Labels : l \in DOMAIN windows_result <=> (n >= 1 /\ n >= SizeOf(l))
      /\ n < 3 => windows_result = <<>>
      /\ n < 5 => (segments = <<>> /\ transitions = <<>>)
      /\ n = 0 => (trajectory = <<>> /\ windows_result = <<>>)
      /\ n >= 1 => DOMAIN trajectory = MetricSet

\* Four records: the 3pt scale alone has windows, and there is no segment
C16_Witness ==
  /\ Len(records) = 4
  /\ DOMAIN windows_result = {"3pt"}
  /\ segments = <<>>
  /\ transitions = <<>>

----------------------------------------------------------------------------
(* C15  events_by_segment is aligned with segments by position: both have  *)
(* the same length and entry i holds the symptom tags of the records       *)
(* inside segment i, also with fewer than 5 records (no segment) when the  *)
(* latest record carries symptoms.  The code's patch for the latest        *)
(* record then returns one entry for no segment.                           *)
C15_EventsAligned ==
  /\ Len(events_by_segment) = Len(segments)
  /\ \A i \in 1..Len(segments) :
       events_by_segment[i] =
         UNION {EventsOf(records[k]) :
                  k \in {j \in 1..Len(records) :
                           segments[i].start <= records[j].datetime
                           /\ records[j].datetime <= segments[i].end}}

----------------------------------------------------------------------------
(* C17  The segmentation threshold analyze_steady_states passes on lies in *)
(* [8, 25]: it is 1.5 x user_volatility when that product lies between 8   *)
(* and 25, 8 when the product is below 8 and 25 when it is above 25.       *)
(* (Threshold in 1/80, volatility in 1/40: the product is 3 x volatility.) *)
C17_ThresholdClamp ==
  records # <<>> =>
    LET product == 3 * _estimate_user_variability(windows["5pt"])
    IN  /\ 640 <= seg_threshold /\ seg_threshold <= 2000
        /\ (640 <= product /\ product <= 2000) => seg_threshold = product
        /\ product < 640 => seg_threshold = 640
        /\ product > 2000 => seg_threshold = 2000

\* Windows with a typical sbp and pp iqr of 4: volatility 4 + 1.5 x 4 = 10,
\* threshold 15
C17_Witness ==
  /\ Len(windows["5pt"]) >= 1
  /\ _estimate_user_variability(windows["5pt"]) = 400
  /\ seg_threshold = 1200

----------------------------------------------------------------------------
(* Record lists the profile properties are tried with                      *)

\* recs with metric m taken out of the records at the positions K
DropMetric(recs, m, K) ==
  [i \in 1..Len(recs) |->
     IF i \in K THEN [x \in DOMAIN recs[i] \ {m} |-> recs[i][x]] ELSE recs[i]]

\* Every run of consecutive records of the history (the empty one too, its
\* profile is empty), and the history with
\* one metric missing in its first k records (k up to all of them)
ProfileInputs ==
  {SubSeq(records, i, j) : i \in 1..Len(records), j \in 1..Len(records)}
  \cup {DropMetric(records, m, 1..k) : m \in MetricSet, k \in 1..Len(records)}

\* The index round(p x (n - 1)), p = p4 / 4, rounding a half up
RoundedIndex(n, p4) ==
  CHOOSE idx \in 0..(n - 1) : 4 * idx - p4 * (n - 1) \in -1..2

----------------------------------------------------------------------------
(* C18  For a non-empty record list and every metric with at least one     *)
(* value, the profile has iqr >= 0 and q1 <= median <= q3, where q1 and q3 *)
(* are the sorted values at index round(p x (n - 1)) for p = 0.25 and 0.75 *)
(* (half rounds up) and iqr = max(q3 - q1, 0); a metric without a value is *)
(* not in the profile.                                                     *)
C18_ProfileInvariant ==
  \A recs \in ProfileInputs :
     LET profile == _compute_profile(recs)
     IN  \A m \in MetricSet :
            LET sv == SortVals(_safe_get_metric_values(recs, m))
                n == Len(sv)
            IN  IF n = 0 THEN m \notin DOMAIN profile
                ELSE /\ m \in DOMAIN profile
                     /\ profile[m].iqr >= 0
                     /\ profile[m].q1 <= profile[m].median
                     /\ profile[m].median <= profile[m].q3
                     /\ profile[m].q1 = 2 * sv[RoundedIndex(n, 1) + 1]
                     /\ profile[m].q3 = 2 * sv[RoundedIndex(n, 3) + 1]
                     /\ profile[m].iqr = Max2(profile[m].q3 - profile[m].q1, 0)

\* Three records at 130, 120, 124: the indices 0.5 and 1.5 round up to 1
\* and 2, so q1 = median = 124 and q3 = 130
C18_Witness ==
  /\ Len(records) = 3
  /\ records[1].sbp = 130 /\ records[2].sbp = 120 /\ records[3].sbp = 124
  /\ windows_result["3pt"].baseline.profile["sbp"] =
       [median |-> 248, q1 |-> 248, q3 |-> 260, iqr |-> 12]

----------------------------------------------------------------------------
(* Profiles the stability properties are tried with                        *)

\* Profile p with the iqr of metric m set to v (half units)
SetIqr(p, m, v) == [p EXCEPT ![m].iqr = v]

\* Profile p over the metrics of S only
RestrictTo(p, S) == [m \in S \cap DOMAIN p |-> p[m]]

\* iqr values a profile is varied with: 0, 1 and 1.5 (half units)
IqrValues == {0, 2, 3}

\* The profile of the whole history over all metrics, over pp and hr and
\* over sbp alone, each with the iqr of one metric varied
VariedProfiles(S) ==
  LET p == RestrictTo(_compute_profile(records), S)
  IN  {SetIqr(p, m, v) : m \in DOMAIN p, v \in IqrValues} \cup {p}

\* 10 x 2 x the sum of weight x iqr, and 10 x the sum of the weights: their
\* quotient is 2 x the weighted-average iqr
WeightedIqrSum(p) == SumOver(DOMAIN p, [m \in DOMAIN p |-> METRIC_WEIGHTS[m] * p[m].iqr])

WeightSum(p) == SumOver(DOMAIN p, [m \in DOMAIN p |-> METRIC_WEIGHTS[m]])

----------------------------------------------------------------------------
(* C19  Stability is monotone: of two profiles over the same metrics the   *)
(* one with the larger weighted-average iqr (weights sbp 1.0, dbp 1.0,     *)
(* pp 1.5, hr 0.8) has the strictly lower stability, and profiles with     *)
(* equal weighted-average iqr have equal stability.                        *)
C19_StabilityMonotone ==
  records # <<>> =>
    \A S \in {MetricSet, {"pp", "hr"}, {"sbp"}} :
       \A p \in VariedProfiles(S), q \in VariedProfiles(S) :
          LET sp == _compute_stability(p)
              sq == _compute_stability(q)
              \* weighted-average iqr of p, q as fractions over a common sign
              p_avg == WeightedIqrSum(p) * WeightSum(q)
              q_avg == WeightedIqrSum(q) * WeightSum(p)
          IN  /\ p_avg > q_avg => sp.num * sq.den < sq.num * sp.den
              /\ p_avg = q_avg => sp.num * sq.den = sq.num * sp.den

\* Records at one level: every iqr is 0, and the varied profiles hold one
\* with a pp iqr of 1 (weighted 1.5) and one with a hr iqr of 1.5
\* (weighted 1.2), the first of which is the less stable
C19_Witness ==
  /\ Len(records) >= 3
  /\ \A m \in MetricSet : _compute_profile(records)[m].iqr = 0
  /\ windows_result["3pt"].baseline.stability.num = windows_result["3pt"].baseline.stability.den
  /\ LET p == SetIqr(_compute_profile(records), "pp", 2)
         q == SetIqr(_compute_profile(records), "hr", 3)
     IN  /\ p \in VariedProfiles(MetricSet) /\ q \in VariedProfiles(MetricSet)
         /\ _compute_stability(p).num * _compute_stability(q).den
              < _compute_stability(q).num * _compute_stability(p).den

----------------------------------------------------------------------------
(* The latest record of the history: the last in time, and of records      *)
(* with that time the last given                                           *)
LatestRecord ==
  records[CHOOSE k \in 1..Len(records) :
            \A j \in 1..Len(records) :
               \/ records[j].datetime < records[k].datetime
               \/ (records[j].datetime = records[k].datetime /\ j <= k)]

HasHighRisk(tags) == \E e \in tags : Normalise(e) \in HIGH_RISK_SYMPTOMS

----------------------------------------------------------------------------
(* C20  assess_risk_bundle returns acute_risk_level "critical" and         *)
(* symptom_level "high" whenever the symptoms of the latest record or the  *)
(* last entry of events_by_segment hold a high-risk symptom, whatever the  *)
(* sbp, the dbp, the baseline and the trend are.                           *)
C20_HighRiskSymptomIsCritical ==
  (records # <<>> /\ risk_bundle # <<>>) =>
    ((\/ HasHighRisk(_get_val(LatestRecord, "events", {}))
      \/ (events_by_segment # <<>>
          /\ HasHighRisk(events_by_segment[Len(events_by_segment)])))
     => (/\ risk_bundle.acute_risk_level = "critical"
         /\ risk_bundle.symptom_level = "high"))

\* A normal reading without a symptom of its own, a baseline of 120 and a
\* stable trend; chest pain is in the last entry of events_by_segment only
C20_Witness ==
  /\ Len(records) = 1
  /\ records[1].sbp = 120 /\ records[1].dbp = 70 /\ records[1].events = {}
  /\ steady_for_risk = [base |-> [sbp |-> 240], trend |-> [sbp |-> "stable"]]
  /\ events_by_segment = <<{"chest_pain"}>>
  /\ risk_bundle.acute_risk_level = "critical"
  /\ risk_bundle.symptom_level = "high"
  /\ risk_bundle.assessment_reasons = <<"high_risk_symptoms">>

----------------------------------------------------------------------------
(* C21  With no records assess_risk_bundle returns the safe default:       *)
(* acute_risk_level "low", symptom_level "none", total_score 0 and no      *)
(* assessment reasons, whatever steady_data and events_by_segment are.     *)
C21_EmptyRecordsDefault ==
  (records = <<>> /\ risk_bundle # <<>>) =>
    /\ risk_bundle.acute_risk_level = "low"
    /\ risk_bundle.symptom_level = "none"
    /\ risk_bundle.total_score = 0
    /\ risk_bundle.assessment_reasons = <<>>

\* A call without records, with a baseline of 165, a rising trend and
\* chest pain in events_by_segment
C21_Witness ==
  /\ records = <<>>
  /\ steady_for_risk = [base |-> [sbp |-> 330], trend |-> [sbp |-> "up"]]
  /\ events_by_segment = <<{"chest_pain"}>>
  /\ risk_bundle # <<>>
  /\ risk_bundle.acute_risk_level = "low"

----------------------------------------------------------------------------
(* The factors of the plaque risk, from the latest record and the patterns *)
PlaquePp == _get_val(LatestRecord, "sbp", 120) - _get_val(LatestRecord, "dbp", 80)

PlaqueFactors ==
  [pulse       |-> IF PlaquePp >= 60 THEN 4 ELSE IF PlaquePp >= 50 THEN 2 ELSE 0,
   variability |-> IF "variability" \in DOMAIN patterns /\ patterns.variability = "high" THEN 3
                   ELSE IF "variability" \in DOMAIN patterns /\ patterns.variability = "medium"
                        THEN 1 ELSE 0,
   surge       |-> IF "morning_surge" \in DOMAIN patterns /\ patterns.morning_surge = "present"
                   THEN 2 ELSE 0,
   heart_rate  |-> IF _get_val(LatestRecord, "hr", 70) > 90 THEN 1 ELSE 0,
   tension     |-> IF _get_val(LatestRecord, "sbp", 120) > 160 THEN 2 ELSE 0]

----------------------------------------------------------------------------
(* C22  For non-empty records the plaque risk has a score in [0, 1]: the   *)
(* sum of the contributions of pulse pressure, variability, morning surge, *)
(* heart rate > 90 and sbp > 160, capped at 1.0; its level is "high"       *)
(* exactly when score >= 0.7, "moderate" exactly when 0.4 <= score < 0.7   *)
(* and "low" otherwise; pp >= 60 alone gives "moderate" with the reason    *)
(* "high_pulse_pressure".  (Score in tenths.)                              *)
C22_PlaqueRisk ==
  (records # <<>> /\ risk_bundle # <<>>) =>
    LET plaque == risk_bundle.plaque_risk
        f == PlaqueFactors
        total == f.pulse + f.variability + f.surge + f.heart_rate + f.tension
    IN  /\ 0 <= plaque.score /\ plaque.score <= 10
        /\ plaque.score = Min2(10, total)
        /\ plaque.level \in {"high", "moderate", "low"}
        /\ plaque.level = "high" <=> plaque.score >= 7
        /\ plaque.level = "moderate" <=> (4 <= plaque.score /\ plaque.score < 7)
        /\ (PlaquePp >= 60 /\ total = 4) =>
             (plaque.level = "moderate" /\ plaque.reasons = <<"high_pulse_pressure">>)

\* Every factor at once: the contributions add up to 1.2 and the score is
\* capped at 1.0
C22_Witness ==
  /\ Len(records) = 1
  /\ records[1].sbp = 175 /\ records[1].dbp = 70 /\ records[1].hr = 95
  /\ patterns = [variability |-> "high", morning_surge |-> "present"]
  /\ risk_bundle.plaque_risk.score = 10
  /\ risk_bundle.plaque_risk.level = "high"

----------------------------------------------------------------------------
(* The symptoms, the values and the baseline the level is decided on       *)
RiskSymptoms ==
  {Normalise(e) : e \in _get_val(LatestRecord, "events", {})}
  \cup (IF events_by_segment = <<>> THEN {}
        ELSE {Normalise(e) : e \in events_by_segment[Len(events_by_segment)]})

LatestSbp == _get_val(LatestRecord, "sbp", 120)

LatestDbp == _get_val(LatestRecord, "dbp", 80)

\* The baseline sbp in half units (120 when steady_data has none)
BaselineSbp2 ==
  IF "base" \in DOMAIN steady_for_risk /\ "sbp" \in DOMAIN steady_for_risk.base
  THEN steady_for_risk.base.sbp ELSE 240

\* |sbp - base| / base < 20%, for a positive baseline
DeviationBelow20 == 5 * Abs(2 * LatestSbp - BaselineSbp2) < BaselineSbp2

----------------------------------------------------------------------------
----------------------------------------------------------------------------
----------------------------------------------------------------------------
(* The segmentation walk                                                   *)

\* Whether window W[k] is within the threshold of the mean of the medians of
\* the windows W[s] .. W[k - 1]: the weighted sum over the metrics of
\* |median - mean| is below dynamic_threshold
NearMeanOfRun(W, s, k, dynamic_threshold) ==
  LET n == k - s
      total(m) == SumSeq([j \in 1..n |-> W[s + j - 1].profile[m].median])
      D == SumOver(MetricSet, [m \in MetricSet |->
                     Abs(W[k].profile[m].median * n - total(m)) * METRIC_WEIGHTS[m]])
  IN  4 * D < dynamic_threshold * n

\* RunStart(W, t)[k]: the index of the window that opened the segment window
\* W[k] belongs to, when every window extends the current segment exactly
\* when it is near the mean of the windows merged so far and no more than 7
\* days lie between the segment's end and the window's start
RunStart(W, dynamic_threshold) ==
  LET F[k \in 1..Len(W)] ==
        IF k = 1 THEN 1
        ELSE IF NearMeanOfRun(W, F[k - 1], k, dynamic_threshold)
                /\ ~(W[k].start - W[k - 1].end > 7)
             THEN F[k - 1]
             ELSE k
  IN  F

\* C24: the walk compares each 5-record window with the running average of
\* the current segment (the mean of the medians of all windows merged so
\* far, not the first window's medians); the window extends the segment
\* exactly when the weighted difference is below the threshold and no forced
\* break applies, and opens a new segment otherwise.  So the segments are
\* the maximal runs of windows built by that rule: segment i starts with the
\* i-th opening window and ends with the last window of its run.
C24_RunningAverageWalk ==
  LET W == windows["5pt"]
      start == RunStart(W, seg_threshold)
      opening == {k \in 1..Len(W) : start[k] = k}
      nth(i) == CHOOSE k \in opening : Cardinality({j \in opening : j <= k}) = i
      last(s) == CHOOSE k \in 1..Len(W) :
                   start[k] = s /\ \A j \in 1..Len(W) : start[j] = s => j <= k
  IN  /\ Len(segments) = Cardinality(opening)
      /\ \A i \in 1..Len(segments) :
            /\ segments[i].start = W[nth(i)].start
            /\ segments[i].end = W[last(nth(i))].end

\* Seven daily readings 120, 120, 120, 124, 130, 130, 130: the window
\* medians are 120, 124 and 130 and the threshold is 22.5; the third window
\* is 20 away from the running average 122 and is merged, although it is 25
\* away from the first window
C24_Witness ==
  /\ Len(records) = 7
  /\ [k \in 1..7 |-> records[k].sbp] = <<120, 120, 120, 124, 130, 130, 130>>
  /\ seg_threshold = 1800
  /\ [k \in 1..3 |-> windows["5pt"][k].profile["sbp"].median] = <<240, 248, 260>>
  /\ Len(segments) = 1
  /\ segments[1].start = records[1].datetime
  /\ segments[1].end = records[7].datetime

----------------------------------------------------------------------------
(* The user's variability                                                  *)

\* C25: _estimate_user_variability returns a strictly positive number for
\* every list of 5-record windows: 10.0 (400 in units of 1/40) for the empty
\* list, and otherwise the weighted combination of the metrics' median IQRs.
\* Five equal daily readings give one window whose IQRs are all 0 and a
\* variability of 0.0.
C25_VariabilityPositive ==
  LET user_volatility == _estimate_user_variability(windows["5pt"])
  IN  /\ user_volatility > 0
      /\ windows["5pt"] = <<>> => user_volatility = 400

----------------------------------------------------------------------------
(* The span the segments cover                                             *)

\* The indices of the 5-record windows that have a profile
WithProfile == {k \in 1..Len(windows["5pt"]) : DOMAIN windows["5pt"][k].profile # {}}

\* Window k lies in the span of segment i
InSegment(k, i) ==
  /\ segments[i].start <= windows["5pt"][k].start
  /\ windows["5pt"][k].end <= segments[i].end

\* C26 (as stated): whenever a 5-record window exists, the first segment
\* starts with the first window and the last segment ends with the last
\* window, and every window with a profile lies in exactly one segment
C26_CoversAllWindows ==
  LET W == windows["5pt"]
  IN  W # <<>> =>
        /\ segments # <<>>
        /\ segments[1].start = W[1].start
        /\ segments[Len(segments)].end = W[Len(W)].end
        /\ \A k \in WithProfile : Cardinality({i \in 1..Len(segments) : InSegment(k, i)}) = 1

\* C26 (amended): the segments cover the span of the windows that have a
\* profile.  Whenever such a window exists, the first segment starts with
\* the first of them and the last segment ends with the last of them; every
\* segment starts and ends with such a window, the segments follow each
\* other in window order, and every window with a profile lies in exactly
\* one segment.  With no such window there is no segment.
C26_CoversWindowsWithProfile ==
  LET W == windows["5pt"]
      first == CHOOSE k \in WithProfile : \A j \in WithProfile : k <= j
      last == CHOOSE k \in WithProfile : \A j \in WithProfile : j <= k
  IN  /\ WithProfile = {} => segments = <<>>
      /\ WithProfile # {} =>
           /\ segments # <<>>
           /\ segments[1].start = W[first].start
           /\ segments[Len(segments)].end = W[last].end
           /\ \A i \in 1..Len(segments) :
                 /\ \E k \in WithProfile : segments[i].start = W[k].start
                 /\ \E k \in WithProfile : segments[i].end = W[k].end
           /\ \A i \in 1..(Len(segments) - 1) : segments[i].end < segments[i + 1].end
           /\ \A k \in WithProfile :
                 Cardinality({i \in 1..Len(segments) : InSegment(k, i)}) = 1

\* Five records without metric values and then a reading: the first window
\* has no profile, and the only segment starts with the second window
C26_Witness ==
  /\ Len(records) = 6
  /\ \A k \in 1..5 : DOMAIN records[k] = {"datetime"}
  /\ Len(windows["5pt"]) = 2
  /\ WithProfile = {2}
  /\ Len(segments) = 1
  /\ segments[1].start = windows["5pt"][2].start
  /\ segments[1].start # windows["5pt"][1].start
  /\ segments[1].end = windows["5pt"][2].end

----------------------------------------------------------------------------
(* The recent window and the floor                                         *)

\* Stability a is at least half of stability b, by cross multiplication
HalfOrMore(a, b) == 2 * a.num * b.den >= b.num * a.den

\* C27: at every scale that has windows the recent window's stability is at
\* least half of the baseline's.  The baseline is one of the scale's windows
\* and passes the floor itself, so some candidate always passes and the
\* nearest-to-end fallback is never what _select_recent returns.
C27_RecentPassesFloor ==
  \A l \in DOMAIN windows_result :
     LET ws == windows[l]
         baseline == windows_result[l].baseline
         recent == windows_result[l].recent
     IN  /\ HalfOrMore(recent.stability, baseline.stability)
         /\ \E i \in 1..Len(ws) : ws[i] = baseline
         /\ HalfOrMore(baseline.stability, baseline.stability)
         /\ \E i \in 1..Len(ws) : ws[i] = recent /\ HalfOrMore(ws[i].stability, baseline.stability)

\* A scale whose window nearest the end fails the floor, with a baseline
\* below one half: the recent window is another one, which passes
C27_Witness ==
  \E l \in DOMAIN windows_result :
     LET ws == windows[l]
         baseline == windows_result[l].baseline
         recent == windows_result[l].recent
     IN  /\ Len(ws) >= 2
         /\ ~HalfOrMore(ws[Len(ws)].stability, baseline.stability)
         /\ 2 * baseline.stability.num < baseline.stability.den
         /\ recent # ws[Len(ws)]
         /\ HalfOrMore(recent.stability, baseline.stability)

----------------------------------------------------------------------------
(* The size of a segment                                                   *)

\* C28: every segment has count >= 5: it spans at least one window of five
\* records and its count is the number of records whose time lies in its
\* range.  So a segment is typed "change" only when its stability is below
\* 0.1, never for having too few records.
C28_SegmentHasFiveRecords ==
  \A i \in 1..Len(segments) :
     LET s == segments[i]
         inside == {k \in 1..Len(records) :
                      s.start <= records[k].datetime /\ records[k].datetime <= s.end}
     IN  /\ s.count >= 5
         /\ s.count = Cardinality(inside)
         /\ \E k \in 1..Len(windows["5pt"]) :
               s.start <= windows["5pt"][k].start /\ windows["5pt"][k].end <= s.end
         /\ s.type = "change" <=> 10 * s.stability.num < s.stability.den

\* A segment of exactly five records, the least there can be, that is typed
\* "change" for its stability
C28_Witness ==
  \E i \in 1..Len(segments) :
     /\ segments[i].count = 5
     /\ segments[i].type = "change"
     /\ 10 * segments[i].stability.num < segments[i].stability.den
     /\ Len(records) > 5

----------------------------------------------------------------------------
(* The gap-aware risk and its baseline                                     *)

\* The gap in days between the last two records of the context
LastGapDays ==
  LET recs == temporal_context.records
  IN  recs[Len(recs)].timestamp - recs[Len(recs) - 1].timestamp

\* The records before the latest that lie in the last `days` days
EarlierWithin(days) ==
  LET recs == temporal_context.records
  IN  {k \in 1..(Len(recs) - 1) : recs[k].timestamp >= recs[Len(recs)].timestamp - days}

\* C30: for records in time order the baseline sbp is the mean sbp of the
\* records of the selected window (7 days for a last gap of at most 14
\* days, 30 days for a longer one) without the latest record, and the result
\* is None when there is no such record.  So a last gap of more than 7 and
\* at most 14 days (moderate) or of more than 30 days (severe) always gives
\* None, and no result has gap_category "moderate" or "severe".
C30_BaselineWindow ==
  LET recs == temporal_context.records
      gap == LastGapDays
      selected == EarlierWithin(IF gap <= 14 THEN 7 ELSE 30)
      total == SumOver(selected, [k \in selected |-> recs[k].sbp])
  IN  /\ Len(recs) < 2 => gap_aware_risk = <<>>
      /\ Len(recs) >= 2 =>
           /\ gap_aware_risk = <<>> <=> selected = {}
           /\ selected # {} =>
                /\ gap_aware_risk.baseline_window = (IF gap <= 14 THEN "7d" ELSE "30d")
                /\ gap_aware_risk.baseline_sbp.num * Cardinality(selected)
                     = total * gap_aware_risk.baseline_sbp.den
           /\ (7 < gap /\ gap <= 14) \/ gap > 30 => gap_aware_risk = <<>>
           /\ gap_aware_risk # <<>> => gap_aware_risk.gap_category \notin {"moderate", "severe"}

\* Three records a day and then eight days apart: the gap is moderate, the
\* 7-day window holds the latest record alone and the result is None
C30_Witness ==
  /\ Len(temporal_context.records) = 3
  /\ temporal_context.last_gap.gap_category = "moderate"
  /\ temporal_context.last_gap.gap_days = 8
  /\ temporal_context.window_indices["7d"] = [start_idx |-> 2, end_idx |-> 2]
  /\ gap_aware_risk = <<>>

============================================================================
